---- MODULE Spec2Model ----
(***************************************************************************)
(* State-machine model of the LeverageApp market-history pipeline:         *)
(*   src/src/lib/marketData.ts  lines 380-646 (FMP provider client,        *)
(*       series normaliser, resamplers, getMarketHistory, local cache)     *)
(*   src/src/app/page.tsx       lines 9-121   (Dashboard, leverage score)  *)
(*                                                                         *)
(* Conventions                                                             *)
(*   - a calendar-day string "YYYY-MM-DD" is the integer YYYYMMDD; the     *)
(*     integer order is the order of String.localeCompare on such strings  *)
(*   - Date.now() is `clock`, in milliseconds since the model's origin     *)
(*   - a JSON value is a record tagged by the field t                      *)
(*   - a non-integer number (a P/E ratio) is a normalised fraction <<n,d>> *)
(*   - a falsy number field (0, null or absent) is the number 0            *)
(***************************************************************************)
EXTENDS Integers, Sequences, FiniteSets, TLC

VARIABLES
    clock,          \* Date.now(): wall-clock milliseconds since the origin
    storage,        \* localStorage[CACHE_KEY_FMP]: the stored string, or NoItem
    API_KEY,        \* process.env.NEXT_PUBLIC_FMP_KEY
    LEGACY_API_KEY, \* process.env.NEXT_PUBLIC_MARKET_DATA_KEY
    localDayShift,  \* 0, or -1 where local time is behind UTC (Date getters)
    pc,             \* per tab: position of loadData/getMarketHistory
    caller,         \* per tab: who called fetchFMP
    ep,             \* per tab: endpoint of the current fetchFMP invocation
    now,            \* per tab: const now = Date.now() of the running cycle
    loc,            \* per tab: the locals of getMarketHistory
    inflight,       \* per tab: network calls issued and not yet settled
    fetched,        \* per tab: the fetchFMP invocation that returned last
    ret,            \* per tab: value getMarketHistory resolved to
    log,            \* per tab: the observable events of the running cycle
    dash,           \* the Dashboard's score computation (page.tsx 91-121)
    calc            \* a series function applied on its own: input and outputs

vars == <<clock, storage, API_KEY, LEGACY_API_KEY, localDayShift, pc, caller, ep, now,
          loc, inflight, fetched, ret, log, dash, calc>>

-----------------------------------------------------------------------------
(* Bounds of the model *)

MaxEps == 1    \* the clock is observed within MaxEps ms of the cache expiry
MaxBars == 3   \* a provider payload given to the normaliser holds at most MaxBars bars
MaxPoints == 4 \* a series given to an indicator holds at most MaxPoints points
MaxPeriod == 3 \* an indicator is asked for a period of at most MaxPeriod

-----------------------------------------------------------------------------
(* Numbers *)

Abs(x) == IF x < 0 THEN -x ELSE x

RECURSIVE GCD(_, _)
GCD(a, b) == IF b = 0 THEN a ELSE GCD(b, a % b)

\* the quotient n / d of two JS numbers (d # 0), as a normalised fraction
Divide(n, d) ==
    LET g == GCD(Abs(n), Abs(d))
        s == IF d < 0 THEN -1 ELSE 1
    IN  <<(s * n) \div g, (s * d) \div g>>

\* NaN is 0/0: every comparison with it is false, and it is falsy
NaN == <<0, 0>>
RatGt(r, k) == r[1] > k * r[2]
RatLt(r, k) == r[1] < k * r[2]
RatTruthy(r) == r[1] # 0
Min(a, b) == IF a < b THEN a ELSE b
Max(a, b) == IF a > b THEN a ELSE b

-----------------------------------------------------------------------------
(* Calendar days: what the runtime's Date does with "YYYY-MM-DD" *)

Ymd(y, m, d) == y * 10000 + m * 100 + d
YearOf(date)  == date \div 10000
MonthOf(date) == (date \div 100) % 100
DayOf(date)   == date % 100

\* days since 1970-01-01 of a proleptic Gregorian date
DaysFromCivil(date) ==
    LET y   == IF MonthOf(date) <= 2 THEN YearOf(date) - 1 ELSE YearOf(date)
        era == y \div 400
        yoe == y - era * 400
        mp  == IF MonthOf(date) > 2 THEN MonthOf(date) - 3 ELSE MonthOf(date) + 9
        doy == (153 * mp + 2) \div 5 + DayOf(date) - 1
        doe == yoe * 365 + yoe \div 4 - yoe \div 100 + doy
    IN  era * 146097 + doe - 719468

CivilFromDays(z) ==
    LET zz  == z + 719468
        era == zz \div 146097
        doe == zz - era * 146097
        yoe == (doe - doe \div 1460 + doe \div 36524 - doe \div 146096) \div 365
        doy == doe - (365 * yoe + yoe \div 4 - yoe \div 100)
        mp  == (5 * doy + 2) \div 153
        d   == doy - (153 * mp + 2) \div 5 + 1
        m   == IF mp < 10 THEN mp + 3 ELSE mp - 9
        y   == yoe + era * 400 + (IF m <= 2 THEN 1 ELSE 0)
    IN  Ymd(y, m, d)

\* Date.prototype.getDay of a day number: 0 = Sunday .. 6 = Saturday
GetDay(z) == (z + 4) % 7

-----------------------------------------------------------------------------
(* JSON values and HTTP responses *)

JNull == [t |-> "null"]                       \* JSON null / JS null
JArray(items) == [t |-> "array", items |-> items]
\* a JSON object of the provider: with or without a truthy "Error Message"
\* field, with or without a "historical" array
JObject(err, hasHist, hist) ==
    [t |-> "object", errorMessage |-> err, hasHistorical |-> hasHist,
     historical |-> hist]

Point(date, value) == [date |-> date, value |-> value]
Bar(date, close)   == [date |-> date, close |-> close]

\* what fetch(url) followed by res.json() can do
FetchRejected == [kind |-> "fetch rejected", body |-> JNull]
BodyNotJson   == [kind |-> "json rejected", body |-> JNull]
Body(b)       == [kind |-> "json", body |-> b]

-----------------------------------------------------------------------------
(* Array.prototype.sort((a, b) => a.date.localeCompare(b.date)): stable *)

RECURSIVE InsertByDate(_, _)
InsertByDate(p, s) ==
    IF s = <<>> THEN <<p>>
    ELSE IF s[Len(s)].date <= p.date THEN Append(s, p)
    ELSE Append(InsertByDate(p, SubSeq(s, 1, Len(s) - 1)), s[Len(s)])

\* no sorting at all
SortByDateOmitted(s) == s

RECURSIVE SortByDate(_)
SortByDate(s) ==
    IF s = <<>> THEN <<>>
    ELSE InsertByDate(s[Len(s)], SortByDate(SubSeq(s, 1, Len(s) - 1)))

-----------------------------------------------------------------------------
(* Series normaliser *)

parseFMPHistory(data) ==
    IF data.t # "object" \/ ~data.hasHistorical THEN <<>>
    ELSE SortByDate([i \in 1..Len(data.historical) |->
                        Point(data.historical[i].date, data.historical[i].close)])

-----------------------------------------------------------------------------
(* Resamplers.  A JS Map is a sequence of entries in insertion order;      *)
(* Map.set on a present key replaces the value and keeps the position.     *)

\* a set that keeps the value already present
MapSetKeepFirst(m, k, v) ==
    IF \E i \in 1..Len(m) : m[i].key = k THEN m
    ELSE Append(m, [key |-> k, value |-> v])

MapSet(m, k, v) ==
    IF \E i \in 1..Len(m) : m[i].key = k
    THEN [i \in 1..Len(m) |-> IF m[i].key = k THEN [key |-> k, value |-> v] ELSE m[i]]
    ELSE Append(m, [key |-> k, value |-> v])

\* the values without the last bucket (a period still running)
MapValuesComplete(m) == [i \in 1..Len(m) - 1 |-> m[i].value]

MapValues(m) == [i \in 1..Len(m) |-> m[i].value]

\* the local calendar day of new Date("YYYY-MM-DD") (UTC midnight), as a day
\* number: the same day east of Greenwich, the day before west of it
LocalDay(date, shift) == DaysFromCivil(date) + shift

\* Math.round(x / 7)
RoundDiv7(x) == (2 * x + 7) \div 14

\* getWeek (lines 431-437) of the local day z: the date is moved to the
\* Thursday of its week and counted from the week of January 4th
getWeek(z) ==
    LET thursday == z + 3 - ((GetDay(z) + 6) % 7)
        week1    == DaysFromCivil(Ymd(YearOf(CivilFromDays(thursday)), 1, 4))
    IN  1 + RoundDiv7((thursday - week1) - 3 + ((GetDay(week1) + 6) % 7))

\* `${d.getFullYear()}-W${weekNum}`
WeekKey(date, shift) ==
    <<YearOf(CivilFromDays(LocalDay(date, shift))), getWeek(LocalDay(date, shift))>>

RECURSIVE WeeklyMap(_, _)
WeeklyMap(daily, shift) ==
    IF daily = <<>> THEN <<>>
    ELSE MapSet(WeeklyMap(SubSeq(daily, 1, Len(daily) - 1), shift),
                WeekKey(daily[Len(daily)].date, shift), daily[Len(daily)])

resampleToWeekly(daily, shift) == SortByDate(MapValues(WeeklyMap(daily, shift)))

\* p.date.substring(0, 7)
MonthKey(date) == date \div 100

RECURSIVE MonthlyMap(_)
MonthlyMap(daily) ==
    IF daily = <<>> THEN <<>>
    ELSE MapSet(MonthlyMap(SubSeq(daily, 1, Len(daily) - 1)),
                MonthKey(daily[Len(daily)].date), daily[Len(daily)])

resampleToMonthly(daily) == SortByDate(MapValues(MonthlyMap(daily)))

-----------------------------------------------------------------------------
(* Constants of marketData.ts and of the environment *)

CACHE_DURATION_MS == 60 * 60 * 1000

Tabs == {"tab1", "tab2"}

\* the instants the clock is observed at: the origin, and the instants
\* around one freshness window after it
Instants == {0} \cup {CACHE_DURATION_MS + e : e \in (-MaxEps)..MaxEps}

\* new Date().toISOString().split("T")[0]: the origin is 2025-01-06T00:00Z
MsPerDay   == 24 * 60 * 60 * 1000
OriginDate == Ymd(2025, 1, 6)
TodayISO(clk) == CivilFromDays(DaysFromCivil(OriginDate) + clk \div MsPerDay)

\* an environment variable: undefined or "" (both falsy), or a key
KeyValues == {"", "fmp-key"}
Truthy(str) == str # ""

\* the builds the page is followed in: without a key, and with one
KeyConfigs == {<<"", "">>, <<"fmp-key", "">>}

\* the local calendar day of a UTC midnight: the same day, or the day before
\* (time zones west of Greenwich)
DayShifts == {0, -1}

Endpoints == <<"historical-price-full/SPY", "quote/%5EVIX",
               "historical-price-full/%5EVIX", "quote/SPY",
               "analyst-estimates/SPY", "historical-price-full/RSP">>

EndpointIndex(e) == CHOOSE i \in 1..Len(Endpoints) : Endpoints[i] = e

-----------------------------------------------------------------------------
(* What the provider can answer.  Every endpoint can fail in every way;    *)
(* the well-formed bodies follow the provider's documented shapes, with    *)
(* historical bars listed newest first.                                    *)

Quote(price, pe) == [price |-> price, pe |-> pe]
Estimate(earnings, eps) == [estimatedEarningsAvg |-> earnings, estimatedEpsAvg |-> eps]

ErrorBody == JObject(TRUE, FALSE, <<>>)

Failures == {FetchRejected, BodyNotJson, Body(JNull), Body(ErrorBody)}

SpyBars == <<Bar(20250103, 480), Bar(20241231, 470), Bar(20241230, 475)>>
VixBars == <<Bar(20250103, 16), Bar(20241231, 17)>>
RspBars == <<Bar(20250103, 180), Bar(20241231, 178)>>

Responses(e) ==
    Failures \cup
    CASE e = "historical-price-full/SPY" ->
            {Body(JObject(FALSE, TRUE, SpyBars)), Body(JObject(FALSE, TRUE, <<>>)),
             Body(JObject(FALSE, FALSE, <<>>))}
      [] e = "quote/%5EVIX" ->
            {Body(JArray(<<Quote(35, <<0, 1>>)>>)), Body(JArray(<<>>))}
      [] e = "historical-price-full/%5EVIX" ->
            {Body(JObject(FALSE, TRUE, VixBars))}
      [] e = "quote/SPY" ->
            {Body(JArray(<<Quote(481, <<132, 5>>)>>)),
             Body(JArray(<<Quote(481, <<0, 1>>)>>))}
      [] e = "analyst-estimates/SPY" ->
            {Body(JArray(<<Estimate(0, 20)>>)), Body(JArray(<<Estimate(0, 0)>>)),
             Body(JArray(<<>>))}
      [] e = "historical-price-full/RSP" ->
            {Body(JObject(FALSE, TRUE, RspBars))}

-----------------------------------------------------------------------------
(* Provider client *)

\* a built-in key of last resort
getApiKeyDemo(primary, legacy) ==
    IF Truthy(primary) THEN primary ELSE IF Truthy(legacy) THEN legacy ELSE "demo"

\* lines 388-390
getApiKey(primary, legacy) == IF Truthy(primary) THEN primary ELSE legacy

Returned(value) == [threw |-> FALSE, value |-> value]
Thrown          == [threw |-> TRUE, value |-> JNull]

\* the try/catch left out: a failed fetch or json() rejects fetchFMP's promise
FetchOutcomeUncaught(resp) ==
    IF resp.kind # "json" \/ resp.body.t = "null" THEN Thrown
    ELSE IF resp.body.t = "object" /\ resp.body.errorMessage THEN Returned(JNull)
    ELSE Returned(resp.body)

\* lines 401-412: how fetchFMP completes once the network call has settled
FetchOutcome(resp) ==
    IF resp.kind # "json" THEN Returned(JNull)            \* catch (err)
    ELSE IF resp.body.t = "null" THEN Returned(JNull)     \* data[...] throws, caught
    ELSE IF resp.body.t = "object" /\ resp.body.errorMessage THEN Returned(JNull)
    ELSE Returned(resp.body)

-----------------------------------------------------------------------------
(* History cache: localStorage under CACHE_KEY_FMP *)

NoItem == [t |-> "no item"]                   \* getItem returns null
MalformedText == [t |-> "string", syntax |-> "malformed", value |-> JNull]

\* { timestamp, data }
CacheObj(timestamp, data) == [t |-> "cacheObj", timestamp |-> timestamp, data |-> data]

\* JSON.stringify / JSON.parse.  A dataset holds only finite numbers, strings,
\* booleans and arrays of such, which the round trip preserves.
JSONStringify(value) == [t |-> "string", syntax |-> "json", value |-> value]
JSONParse(text) ==
    IF text.syntax = "json" THEN [threw |-> FALSE, value |-> text.value]
    ELSE [threw |-> TRUE, value |-> JNull]

\* no instant: a const not yet initialised, a timestamp field that is absent
NoTime == 0 - 1

\* the comparison turned round
FreshInverted(nowMs, timestamp) ==
    timestamp # NoTime /\ nowMs - timestamp > CACHE_DURATION_MS

\* an entry exactly one window old still counted as fresh
FreshInclusive(nowMs, timestamp) ==
    timestamp # NoTime /\ nowMs - timestamp <= CACHE_DURATION_MS

\* line 470; now - undefined is NaN, and NaN < CACHE_DURATION_MS is false
Fresh(nowMs, timestamp) ==
    timestamp # NoTime /\ nowMs - timestamp < CACHE_DURATION_MS

\* the test of the primary series left out of the cache check
CacheCheckAnyData(cached, nowMs) ==
    IF cached.t # "string" THEN JNull
    ELSE LET parsed == JSONParse(cached)
         IN  IF parsed.threw THEN JNull
             ELSE IF parsed.value.t # "cacheObj" THEN JNull
             ELSE IF ~Fresh(nowMs, parsed.value.timestamp) THEN JNull
             ELSE parsed.value.data

\* a failed write that loses the item that was there
SetItemDestructive(old, text, quotaOk) == IF quotaOk THEN text ELSE NoItem

\* a write that puts the new dataset under the timestamp already stored
SetItemKeepingStamp(old, text, quotaOk) ==
    IF ~quotaOk THEN old
    ELSE IF old.t = "string" /\ old.syntax = "json" /\ old.value.t = "cacheObj"
    THEN JSONStringify(CacheObj(old.value.timestamp, text.value.data))
    ELSE text

\* lines 568-570: the stored text after localStorage.setItem(CACHE_KEY_FMP,
\* text), which replaces it or throws (quota exceeded) and leaves it
SetItem(old, text, quotaOk) == IF quotaOk THEN text ELSE old

\* lines 464-478: the dataset the cache check returns, or JNull to go on
CacheCheck(cached, nowMs) ==
    IF cached.t # "string" THEN JNull                          \* if (cached)
    ELSE LET parsed == JSONParse(cached)
         IN  IF parsed.threw THEN JNull                        \* catch (e)
             ELSE IF parsed.value.t # "cacheObj" THEN JNull
             ELSE IF ~Fresh(nowMs, parsed.value.timestamp) THEN JNull
             ELSE IF parsed.value.data = JNull THEN JNull
             ELSE IF Len(parsed.value.data.spyDaily) = 0 THEN JNull
             ELSE parsed.value.data

-----------------------------------------------------------------------------
(* getMarketHistory: the code that runs between two awaits *)

\* the locals before their declarations are reached
NoLocals ==
    [spyDaily |-> <<>>, vixValue |-> 0, vixDate |-> 0, vixDaily |-> <<>>,
     spyQuote |-> JNull, currentPrice |-> 0, peRatio |-> <<0, 1>>]

Pending == [t |-> "pending"]

ArrayNonEmpty(data) == data.t = "array" /\ Len(data.items) > 0

\* line 532: estimates[0].estimatedEarningsAvg || estimates[0].estimatedEpsAvg || 1
estimatedEarnings(est) ==
    IF est.estimatedEarningsAvg # 0 THEN est.estimatedEarningsAvg
    ELSE IF est.estimatedEpsAvg # 0 THEN est.estimatedEpsAvg
    ELSE 1

\* lines 528-542
PeRatio(estimates, spyQuote, currentPrice) ==
    IF ArrayNonEmpty(estimates)
    THEN Divide(currentPrice, estimatedEarnings(estimates.items[1]))
    ELSE IF ArrayNonEmpty(spyQuote) /\ RatTruthy(spyQuote.items[1].pe)
         THEN spyQuote.items[1].pe
         ELSE <<231, 10>>

\* the dataset dated by the first point of its daily series
ResultFirstDate(l, breadthProxy, shift) ==
    [spyDaily    |-> l.spyDaily,
     spyWeekly   |-> resampleToWeekly(l.spyDaily, shift),
     spyMonthly  |-> resampleToMonthly(l.spyDaily),
     vixDaily    |-> l.vixDaily,
     breadth     |-> breadthProxy,
     peRatio     |-> l.peRatio,
     lastUpdated |-> l.spyDaily[1].date,
     isMock      |-> FALSE]

\* lines 548-561
Result(l, breadthProxy, shift) ==
    [spyDaily    |-> l.spyDaily,
     spyWeekly   |-> resampleToWeekly(l.spyDaily, shift),
     spyMonthly  |-> resampleToMonthly(l.spyDaily),
     vixDaily    |-> l.vixDaily,
     breadth     |-> breadthProxy,
     peRatio     |-> l.peRatio,
     lastUpdated |-> l.spyDaily[Len(l.spyDaily)].date,
     isMock      |-> FALSE]

\* the fallback point left out, as for the breadth series
vixDailyNoFallback(parsed, vixDate, vixValue) == parsed

\* lines 510-515: the volatility history, or one synthetic point
vixDailyOf(parsed, vixDate, vixValue) ==
    IF Len(parsed) = 0 THEN <<Point(vixDate, vixValue)>> ELSE parsed

\* The locals after fetchFMP(e) has returned `data`, up to the next await or
\* the return statement.
LocalsAfter(e, data, l, clk) ==
    CASE e = "historical-price-full/SPY" ->
            [l EXCEPT !.spyDaily = parseFMPHistory(data)]
      [] e = "quote/%5EVIX" ->
            [l EXCEPT !.vixValue = IF ArrayNonEmpty(data) THEN data.items[1].price ELSE 15,
                      !.vixDate  = TodayISO(clk)]
      [] e = "historical-price-full/%5EVIX" ->
            [l EXCEPT !.vixDaily = vixDailyOf(parseFMPHistory(data), l.vixDate, l.vixValue)]
      [] e = "quote/SPY" ->
            [l EXCEPT !.spyQuote = data,
                      !.currentPrice = IF ArrayNonEmpty(data) THEN data.items[1].price
                                       ELSE l.spyDaily[Len(l.spyDaily)].value]
      [] e = "analyst-estimates/SPY" ->
            [l EXCEPT !.peRatio = PeRatio(data, l.spyQuote, l.currentPrice)]
      [] e = "historical-price-full/RSP" -> l

\* the check of the primary series left out
PrimaryFailedIgnored(e, l) == FALSE

\* the cycle given up also when the index quote is missing
PrimaryOrQuoteFailed(e, l) ==
    \/ e = "historical-price-full/SPY" /\ Len(l.spyDaily) = 0
    \/ e = "quote/SPY" /\ ~ArrayNonEmpty(l.spyQuote)

\* lines 491-494: the cycle is given up after the primary series
PrimaryFailed(e, l) == e = "historical-price-full/SPY" /\ Len(l.spyDaily) = 0

\* the two volatility calls issued together (Promise.all)
IssuedByTogether(e) ==
    IF e = "quote/%5EVIX" THEN <<e, "historical-price-full/%5EVIX">> ELSE <<e>>

\* the network calls fetchFMP(e) has issued when it suspends: its own, alone
IssuedBy(e) == <<e>>

-----------------------------------------------------------------------------
(* Score model: page.tsx lines 102-121 *)

\* line 102: data?.peRatio || 23.1
PagePeRatio(hasData, dataPe) ==
    IF hasData /\ RatTruthy(dataPe) THEN dataPe ELSE <<231, 10>>

\* the clamp left out
ClampMissing(x) == x

\* line 115: Math.max(0, Math.min(100, rawScore))
Clamp(x) == Max(0, Min(100, x))

\* lines 106-118
RawScore(hasData, valEma50d, valBreadth, valRsiDaily, valVix) ==
    IF hasData
    THEN Clamp(50 + (IF RatGt(valEma50d, 0) THEN 15 ELSE 0)
                  + (IF RatGt(valBreadth, 0) THEN 15 ELSE 0)
                  + (IF RatLt(valRsiDaily, 30) THEN 20 ELSE 0)
                  - (IF RatGt(valRsiDaily, 70) THEN 20 ELSE 0)
                  + (IF RatLt(valVix, 20) THEN 10 ELSE 0)
                  - (IF RatGt(valVix, 30) THEN 20 ELSE 0))
    ELSE 0

\* the warning raised at 22 already
IsSafetyWarningFrom22(peRatio) == peRatio[1] >= 22 * peRatio[2] /\ peRatio[2] > 0

\* line 120
IsSafetyWarning(peRatio) == RatGt(peRatio, 22)

\* line 121
LeverageScore(rawScore, isSafetyWarning) ==
    IF isSafetyWarning THEN Min(rawScore, 45) ELSE rawScore

-----------------------------------------------------------------------------
(* State *)

NoResponse == [kind |-> "none", body |-> JNull]

\* a fetchFMP invocation: the endpoint, the network calls it made, what the
\* network answered (kept for a direct caller only) and how it completed
NoFetch == [endpoint |-> "", netCalls |-> 0, resp |-> NoResponse,
            threw |-> FALSE, value |-> JNull]

NoDash == [phase |-> "none"]

NoCalc == [phase |-> "none"]

TabInit(open) ==
    /\ pc = [t \in Tabs |-> IF t \in open THEN "mounted" ELSE "closed"]
    /\ caller = [t \in Tabs |-> "getMarketHistory"]
    /\ ep = [t \in Tabs |-> ""]
    /\ now = [t \in Tabs |-> NoTime]
    /\ loc = [t \in Tabs |-> NoLocals]
    /\ inflight = [t \in Tabs |-> <<>>]
    /\ fetched = [t \in Tabs |-> NoFetch]
    /\ ret = [t \in Tabs |-> Pending]
    /\ log = [t \in Tabs |-> <<>>]

\* an entry left by an earlier page session that ended at the origin
SeedEntry(shift) ==
    LET l == [spyDaily |-> parseFMPHistory(JObject(FALSE, TRUE, SpyBars)),
              vixValue |-> 35, vixDate |-> TodayISO(0),
              vixDaily |-> parseFMPHistory(JObject(FALSE, TRUE, VixBars)),
              spyQuote |-> JArray(<<Quote(481, <<132, 5>>)>>), currentPrice |-> 481,
              peRatio |-> Divide(481, 20)]
    IN  JSONStringify(CacheObj(0, Result(l, parseFMPHistory(JObject(FALSE, TRUE, RspBars)),
                                         shift)))

InitialStorage(shift) == {NoItem, MalformedText, SeedEntry(shift)}

\* stored texts that are no usable entry: not JSON, the JSON text null, an
\* entry without timestamp, without data, with an empty primary series
NullText == JSONStringify(JNull)
NoTimestampText(shift) == JSONStringify(CacheObj(NoTime, SeedEntry(shift).value.data))
NoDataText == JSONStringify(CacheObj(0, JNull))
EmptySeriesText(shift) ==
    JSONStringify(CacheObj(0, [SeedEntry(shift).value.data EXCEPT !.spyDaily = <<>>]))

InvalidTexts(shift) ==
    {MalformedText, NullText, NoTimestampText(shift), NoDataText, EmptySeriesText(shift)}

Init ==
    /\ clock = 0
    /\ \E k \in KeyConfigs : API_KEY = k[1] /\ LEGACY_API_KEY = k[2]
    /\ localDayShift \in DayShifts
    /\ storage \in InitialStorage(localDayShift)
    /\ TabInit({"tab1"})
    /\ dash = NoDash
    /\ calc = NoCalc

Key == getApiKey(API_KEY, LEGACY_API_KEY)

Event(kind, e) == <<kind, e>>

\* a network call in flight: when it was issued, and when the call before it
\* in the same cycle had settled (NoTime for the first)
Call(e, issuedAt, prevDoneAt) ==
    [endpoint |-> e, issuedAt |-> issuedAt, prevDoneAt |-> prevDoneAt]

RECURSIVE Calls(_, _, _)
Calls(es, issuedAt, prevDoneAt) ==
    IF es = <<>> THEN <<>>
    ELSE <<Call(Head(es), issuedAt, prevDoneAt)>> \o Calls(Tail(es), issuedAt, prevDoneAt)

RECURSIVE FetchEvents(_)
FetchEvents(es) ==
    IF es = <<>> THEN <<>> ELSE <<Event("fetch", Head(es))>> \o FetchEvents(Tail(es))

-----------------------------------------------------------------------------
(* Actions.  An action is the code that runs from one suspension to the    *)
(* next: JavaScript runs it to completion.                                 *)

\* Date.now() advances
Tick ==
    /\ \E i \in Instants : i > clock /\ clock' = i
    /\ UNCHANGED <<storage, API_KEY, LEGACY_API_KEY, localDayShift, pc, caller, ep,
                   now, loc, inflight, fetched, ret, log, dash, calc>>

\* the cache looked up again before each provider call
InvokeRereading(t, e, pending, prevDoneAt, lg) ==
    /\ ep' = [ep EXCEPT ![t] = e]
    /\ pc' = [pc EXCEPT ![t] = IF Truthy(Key) THEN "await" ELSE "fetchFMP"]
    /\ inflight' = [inflight EXCEPT ![t] =
                      IF Truthy(Key) THEN pending \o Calls(IssuedBy(e), clock, prevDoneAt)
                      ELSE pending]
    /\ log' = [log EXCEPT ![t] =
                  IF Truthy(Key)
                  THEN (IF prevDoneAt = NoTime THEN lg ELSE Append(lg, Event("getItem", "")))
                         \o FetchEvents(IssuedBy(e))
                  ELSE lg]

\* lines 392-402: fetchFMP(e) is entered with `pending` the calls still in
\* flight and lg the log so far.  With a key it issues fetch(url) and
\* suspends; without one it is about to return null.
Invoke(t, e, pending, prevDoneAt, lg) ==
    /\ ep' = [ep EXCEPT ![t] = e]
    /\ IF Truthy(Key)
       THEN /\ pc' = [pc EXCEPT ![t] = "await"]
            /\ inflight' = [inflight EXCEPT ![t] =
                              pending \o Calls(IssuedBy(e), clock, prevDoneAt)]
            /\ log' = [log EXCEPT ![t] = lg \o FetchEvents(IssuedBy(e))]
       ELSE /\ pc' = [pc EXCEPT ![t] = "fetchFMP"]
            /\ inflight' = [inflight EXCEPT ![t] = pending]
            /\ log' = [log EXCEPT ![t] = lg]

\* a hit that stamps the entry anew, so that its hour starts again
BeginCycleRefreshing(t) ==
    /\ pc[t] = "mounted"
    /\ now' = [now EXCEPT ![t] = clock]
    /\ LET hit == CacheCheck(storage, clock)
           lg  == <<Event("getItem", "")>>
       IN  IF hit # JNull
           THEN /\ pc' = [pc EXCEPT ![t] = "resolved"]
                /\ ret' = [ret EXCEPT ![t] = hit]
                /\ log' = [log EXCEPT ![t] = lg]
                /\ storage' = JSONStringify(CacheObj(clock, hit))
                /\ UNCHANGED <<ep, inflight>>
           ELSE IF ~Truthy(Key)
           THEN /\ pc' = [pc EXCEPT ![t] = "resolved"]
                /\ ret' = [ret EXCEPT ![t] = JNull]
                /\ log' = [log EXCEPT ![t] = lg]
                /\ UNCHANGED <<ep, inflight, storage>>
           ELSE /\ Invoke(t, Endpoints[1], inflight[t], NoTime, lg)
                /\ ret' = ret
                /\ storage' = storage
    /\ UNCHANGED <<clock, API_KEY, LEGACY_API_KEY, localDayShift, caller,
                   loc, fetched, dash, calc>>

\* lines 459-488: useEffect -> loadData -> getMarketHistory, up to its return
\* from the cache or for want of a key, or to the first await
BeginCycle(t) ==
    /\ pc[t] = "mounted"
    /\ now' = [now EXCEPT ![t] = clock]
    /\ LET hit == CacheCheck(storage, clock)
           lg  == <<Event("getItem", "")>>
       IN  IF hit # JNull
           THEN /\ pc' = [pc EXCEPT ![t] = "resolved"]
                /\ ret' = [ret EXCEPT ![t] = hit]
                /\ log' = [log EXCEPT ![t] = lg]
                /\ UNCHANGED <<ep, inflight>>
           ELSE IF ~Truthy(Key)
           THEN /\ pc' = [pc EXCEPT ![t] = "resolved"]
                /\ ret' = [ret EXCEPT ![t] = JNull]
                /\ log' = [log EXCEPT ![t] = lg]
                /\ UNCHANGED <<ep, inflight>>
           ELSE /\ Invoke(t, Endpoints[1], inflight[t], NoTime, lg)
                /\ ret' = ret
    /\ UNCHANGED <<clock, storage, API_KEY, LEGACY_API_KEY, localDayShift, caller,
                   loc, fetched, dash, calc>>

\* a cycle whose primary fetch failed falling back on the stored entry,
\* however old
ResumeServingStale(t, outcome, pending, lg, quotaOk) ==
    LET e  == ep[t]
        l2 == LocalsAfter(e, outcome.value, loc[t], clock)
    IN  IF outcome.threw
        THEN /\ pc' = [pc EXCEPT ![t] = "rejected"]
             /\ log' = [log EXCEPT ![t] = lg]
             /\ inflight' = [inflight EXCEPT ![t] = pending]
             /\ UNCHANGED <<ep, loc, ret, storage>>
        ELSE IF PrimaryFailed(e, l2)
        THEN /\ pc' = [pc EXCEPT ![t] = "resolved"]
             /\ ret' = [ret EXCEPT ![t] = CacheCheck(storage, 0)]
             /\ loc' = [loc EXCEPT ![t] = l2]
             /\ log' = [log EXCEPT ![t] = lg]
             /\ inflight' = [inflight EXCEPT ![t] = pending]
             /\ UNCHANGED <<ep, storage>>
        ELSE IF EndpointIndex(e) < Len(Endpoints)
        THEN /\ Invoke(t, Endpoints[EndpointIndex(e) + 1], pending, clock, lg)
             /\ loc' = [loc EXCEPT ![t] = l2]
             /\ UNCHANGED <<ret, storage>>
        ELSE LET result == Result(l2, parseFMPHistory(outcome.value), localDayShift)
                 text   == JSONStringify(CacheObj(now[t], result))
             IN  /\ pc' = [pc EXCEPT ![t] = "resolved"]
                 /\ ret' = [ret EXCEPT ![t] = result]
                 /\ loc' = [loc EXCEPT ![t] = l2]
                 /\ log' = [log EXCEPT ![t] = Append(lg, Event("setItem", ""))]
                 /\ storage' = SetItem(storage, text, quotaOk)
                 /\ inflight' = [inflight EXCEPT ![t] = pending]
                 /\ ep' = ep

\* lines 489-573: getMarketHistory from the return of fetchFMP(ep[t]) to its
\* next await or to its end; quotaOk is whether localStorage.setItem succeeds
Resume(t, outcome, pending, lg, quotaOk) ==
    LET e  == ep[t]
        l2 == LocalsAfter(e, outcome.value, loc[t], clock)
    IN  IF outcome.threw
        THEN /\ pc' = [pc EXCEPT ![t] = "rejected"]
             /\ log' = [log EXCEPT ![t] = lg]
             /\ inflight' = [inflight EXCEPT ![t] = pending]
             /\ UNCHANGED <<ep, loc, ret, storage>>
        ELSE IF PrimaryFailed(e, l2)
        THEN /\ pc' = [pc EXCEPT ![t] = "resolved"]
             /\ ret' = [ret EXCEPT ![t] = JNull]
             /\ loc' = [loc EXCEPT ![t] = l2]
             /\ log' = [log EXCEPT ![t] = lg]
             /\ inflight' = [inflight EXCEPT ![t] = pending]
             /\ UNCHANGED <<ep, storage>>
        ELSE IF EndpointIndex(e) < Len(Endpoints)
        THEN /\ Invoke(t, Endpoints[EndpointIndex(e) + 1], pending, clock, lg)
             /\ loc' = [loc EXCEPT ![t] = l2]
             /\ UNCHANGED <<ret, storage>>
        ELSE LET result == Result(l2, parseFMPHistory(outcome.value), localDayShift)
                 text   == JSONStringify(CacheObj(now[t], result))
             IN  /\ pc' = [pc EXCEPT ![t] = "resolved"]
                 /\ ret' = [ret EXCEPT ![t] = result]
                 /\ loc' = [loc EXCEPT ![t] = l2]
                 /\ log' = [log EXCEPT ![t] = Append(lg, Event("setItem", ""))]
                 /\ storage' = SetItem(storage, text, quotaOk)
                 /\ inflight' = [inflight EXCEPT ![t] = pending]
                 /\ ep' = ep

\* localStorage.setItem (line 569) succeeds or throws; it is reached only
\* after the last endpoint
QuotaOutcomes(e) == IF EndpointIndex(e) = Len(Endpoints) THEN BOOLEAN ELSE {TRUE}

\* fetchFMP completes: into getMarketHistory, or to a direct caller
Complete(t, resp, outcome, pending, quotaOk) ==
    IF caller[t] = "getMarketHistory"
    THEN /\ fetched' = [fetched EXCEPT ![t] =
                           [endpoint |-> ep[t], netCalls |-> 0, resp |-> NoResponse,
                            threw |-> outcome.threw, value |-> outcome.value]]
         /\ Resume(t, outcome, pending, Append(log[t], Event("returned", ep[t])),
                   quotaOk)
    ELSE /\ fetched' = [fetched EXCEPT ![t] =
                           [@ EXCEPT !.resp = resp, !.threw = outcome.threw,
                                     !.value = outcome.value]]
         /\ pc' = [pc EXCEPT ![t] = "returned"]
         /\ inflight' = [inflight EXCEPT ![t] = pending]
         /\ UNCHANGED <<ep, loc, ret, storage, log>>

\* lines 402-412 and on: the network call settles, fetchFMP returns and its
\* caller runs on
FetchSettle(t) ==
    /\ pc[t] = "await"
    /\ inflight[t] # <<>>
    /\ \E resp \in Responses(inflight[t][1].endpoint), quotaOk \in QuotaOutcomes(ep[t]) :
          Complete(t, resp, FetchOutcome(resp), Tail(inflight[t]), quotaOk)
    /\ UNCHANGED <<clock, API_KEY, LEGACY_API_KEY, localDayShift, caller, now, dash,
                   calc>>

\* the page is loaded again: a new Dashboard mounts and its effect runs
Reload(t) ==
    /\ pc[t] \in {"resolved", "rejected"}
    /\ pc' = [pc EXCEPT ![t] = "mounted"]
    /\ ep' = [ep EXCEPT ![t] = ""]
    /\ now' = [now EXCEPT ![t] = NoTime]
    /\ loc' = [loc EXCEPT ![t] = NoLocals]
    /\ fetched' = [fetched EXCEPT ![t] = NoFetch]
    /\ ret' = [ret EXCEPT ![t] = Pending]
    /\ log' = [log EXCEPT ![t] = <<>>]
    /\ UNCHANGED <<clock, storage, API_KEY, LEGACY_API_KEY, localDayShift, caller,
                   inflight, dash, calc>>

\* page.tsx lines 91-121: a render of the Dashboard computes the score from
\* the latest readings
Render ==
    /\ dash.phase = "readings"
    /\ LET pe   == PagePeRatio(dash.hasData, dash.dataPe)
           raw  == RawScore(dash.hasData, dash.valEma50d, dash.valBreadth,
                            dash.valRsiDaily, dash.valVix)
           warn == IsSafetyWarning(pe)
       IN  dash' = [dash EXCEPT !.phase = "rendered", !.peRatio = pe,
                                !.rawScore = raw, !.isSafetyWarning = warn,
                                !.leverageScore = LeverageScore(raw, warn)]
    /\ UNCHANGED <<clock, storage, API_KEY, LEGACY_API_KEY, localDayShift, pc,
                   caller, ep, now, loc, inflight, fetched, ret, log, calc>>

\* lines 392-402: fetchFMP called directly
FetchFMP(t) ==
    /\ pc[t] = "fetchFMP"
    /\ IF Truthy(Key)
       THEN /\ Invoke(t, ep[t], inflight[t], NoTime, log[t])
            /\ fetched' = [fetched EXCEPT ![t] =
                              [NoFetch EXCEPT !.endpoint = ep[t],
                                              !.netCalls = Len(IssuedBy(ep[t]))]]
            /\ UNCHANGED <<loc, ret, storage>>
       ELSE /\ \E quotaOk \in QuotaOutcomes(ep[t]) :
                  Complete(t, NoResponse, Returned(JNull), inflight[t], quotaOk)
    /\ UNCHANGED <<clock, API_KEY, LEGACY_API_KEY, localDayShift, caller, now, dash,
                   calc>>

Next ==
    \/ Tick
    \/ \E t \in Tabs : BeginCycle(t)
    \/ \E t \in Tabs : FetchSettle(t)
    \/ \E t \in Tabs : Reload(t)

Spec == Init /\ [][Next]_vars

-----------------------------------------------------------------------------
(* The page loaded over a cache that holds no usable entry *)

InitCache ==
    /\ clock = 0
    /\ \E k \in KeyConfigs : API_KEY = k[1] /\ LEGACY_API_KEY = k[2]
    /\ localDayShift = 0
    /\ storage \in {NoItem} \cup InvalidTexts(localDayShift)
    /\ TabInit({"tab1"})
    /\ dash = NoDash
    /\ calc = NoCalc

SpecCache == InitCache /\ [][Next]_vars

-----------------------------------------------------------------------------
(* Two tabs of the same origin, opened over an empty cache with a key set. *)
(* They share localStorage and nothing else.  The provider answers every   *)
(* call, except that the breadth history may fail, so that the datasets of *)
(* two cycles can differ.                                                  *)

TabResponses(e) ==
    CASE e = "historical-price-full/SPY"    -> {Body(JObject(FALSE, TRUE, SpyBars))}
      [] e = "quote/%5EVIX"                 -> {Body(JArray(<<Quote(35, <<0, 1>>)>>))}
      [] e = "historical-price-full/%5EVIX" -> {Body(JObject(FALSE, TRUE, VixBars))}
      [] e = "quote/SPY"                    -> {Body(JArray(<<Quote(481, <<132, 5>>)>>))}
      [] e = "analyst-estimates/SPY"        -> {Body(JArray(<<Estimate(0, 20)>>))}
      [] e = "historical-price-full/RSP"    ->
            {Body(JObject(FALSE, TRUE, RspBars)), FetchRejected}

InitTabs ==
    /\ clock = 0
    /\ API_KEY = "fmp-key" /\ LEGACY_API_KEY = ""
    /\ localDayShift = 0
    /\ storage = NoItem
    /\ TabInit(Tabs)
    /\ dash = NoDash
    /\ calc = NoCalc

\* lines 402-412 and on, in either tab
TabSettle(t) ==
    /\ pc[t] = "await"
    /\ inflight[t] # <<>>
    /\ \E resp \in TabResponses(inflight[t][1].endpoint), quotaOk \in QuotaOutcomes(ep[t]) :
          Complete(t, resp, FetchOutcome(resp), Tail(inflight[t]), quotaOk)
    /\ UNCHANGED <<clock, API_KEY, LEGACY_API_KEY, localDayShift, caller, now, dash,
                   calc>>

NextTabs ==
    \/ Tick
    \/ \E t \in Tabs : BeginCycle(t)
    \/ \E t \in Tabs : TabSettle(t)

SpecTabs == InitTabs /\ [][NextTabs]_vars

-----------------------------------------------------------------------------
(* fetchFMP called on its own: every endpoint under every key setting *)

InitFetch ==
    /\ clock = 0
    /\ storage = NoItem
    /\ API_KEY \in KeyValues
    /\ LEGACY_API_KEY \in KeyValues
    /\ localDayShift = 0
    /\ pc = [t \in Tabs |-> IF t = "tab1" THEN "fetchFMP" ELSE "closed"]
    /\ caller = [t \in Tabs |-> "direct"]
    /\ \E e \in 1..Len(Endpoints) : ep = [t \in Tabs |-> IF t = "tab1" THEN Endpoints[e] ELSE ""]
    /\ now = [t \in Tabs |-> NoTime]
    /\ loc = [t \in Tabs |-> NoLocals]
    /\ inflight = [t \in Tabs |-> <<>>]
    /\ fetched = [t \in Tabs |-> NoFetch]
    /\ ret = [t \in Tabs |-> Pending]
    /\ log = [t \in Tabs |-> <<>>]
    /\ dash = NoDash
    /\ calc = NoCalc

NextFetch ==
    \/ Tick
    \/ \E t \in Tabs : FetchFMP(t)
    \/ \E t \in Tabs : FetchSettle(t)

SpecFetch == InitFetch /\ [][NextFetch]_vars

-----------------------------------------------------------------------------
(* The score model on its own: every combination of latest readings *)

SignValues == {<<-1, 1>>, <<0, 1>>, <<1, 2>>, NaN}
RsiValues  == {<<0, 1>>, <<59, 2>>, <<30, 1>>, <<50, 1>>, <<70, 1>>, <<141, 2>>, <<100, 1>>, NaN}
VixValues  == {<<0, 1>>, <<39, 2>>, <<20, 1>>, <<30, 1>>, <<61, 2>>, NaN}
PeValues   == {<<0, 1>>, <<-5, 1>>, <<22, 1>>, <<221, 10>>, <<231, 10>>, <<480, 1>>, NaN}

InitScore ==
    /\ clock = 0
    /\ storage = NoItem
    /\ API_KEY = ""
    /\ LEGACY_API_KEY = ""
    /\ localDayShift = 0
    /\ TabInit({})
    /\ \E hasData \in BOOLEAN, e \in SignValues, b \in SignValues, r \in RsiValues,
          v \in VixValues, pe \in PeValues :
          dash = [phase |-> "readings", hasData |-> hasData, dataPe |-> pe,
                  valEma50d |-> e, valBreadth |-> b, valRsiDaily |-> r, valVix |-> v,
                  peRatio |-> NaN, rawScore |-> 0, isSafetyWarning |-> FALSE,
                  leverageScore |-> 0]
    /\ calc = NoCalc

NextScore == Render

SpecScore == InitScore /\ [][NextScore]_vars

-----------------------------------------------------------------------------
(* Technical indicators (lines 578-646).  A value is an exact fraction     *)
(* <<n, d>> with d > 0, or <<1, 0>> (Infinity), <<-1, 0>> (-Infinity),     *)
(* <<0, 0>> (NaN); the operations follow the IEEE rules for these.         *)
(* This is the arithmetic without rounding: it decides the lengths, the    *)
(* dates and the special values of the outputs.  The values as the runtime *)
(* rounds them are computed further down, in binary64.                     *)

Rat(n, d) ==
    IF d = 0 THEN (IF n = 0 THEN NaN ELSE IF n > 0 THEN <<1, 0>> ELSE <<-1, 0>>)
    ELSE Divide(n, d)

FromInt(i) == <<i, 1>>
RatAdd(a, b) == Rat(a[1] * b[2] + b[1] * a[2], a[2] * b[2])
RatSub(a, b) == Rat(a[1] * b[2] - b[1] * a[2], a[2] * b[2])
RatMul(a, b) == Rat(a[1] * b[1], a[2] * b[2])
RatDiv(a, b) == Rat(a[1] * b[2], a[2] * b[1])

RECURSIVE SumValues(_, _, _)
\* data[from].value + ... + data[to].value
SumValues(data, from, to) ==
    IF from > to THEN 0 ELSE SumValues(data, from, to - 1) + data[to].value

\* lines 637-646
calculateSMA(data, period) ==
    IF Len(data) < period THEN <<>>
    ELSE [j \in 1..(Len(data) - period + 1) |->
             Point(data[j + period - 1].date,
                   Rat(SumValues(data, j, j + period - 1), period))]

RECURSIVE EmaAt(_, _, _)
\* lines 584-591: the value of `ema` once the i-th point (i >= period) is in
EmaAt(data, period, i) ==
    IF i = period THEN Rat(SumValues(data, 1, period), period)
    ELSE LET prev == EmaAt(data, period, i - 1)
             k    == Rat(2, period + 1)
         IN  RatAdd(RatMul(RatSub(FromInt(data[i].value), prev), k), prev)

\* an average seeded with the first point, one output per input point
calculateEMAUnseeded(data, period) ==
    [j \in 1..Len(data) |-> Point(data[j].date, EmaAt(data, 1, j))]

\* lines 578-595
calculateEMA(data, period) ==
    IF Len(data) = 0 THEN <<>>
    ELSE IF Len(data) < period THEN <<>>
    ELSE [j \in 1..(Len(data) - period + 1) |->
             Point(data[j + period - 1].date, EmaAt(data, period, j + period - 1))]

\* data[i].value - data[i - 1].value, i counted from 1
Diff(data, i) == data[i].value - data[i - 1].value
Gain(data, i) == IF Diff(data, i) > 0 THEN Diff(data, i) ELSE 0
Loss(data, i) == IF Diff(data, i) < 0 THEN 0 - Diff(data, i) ELSE 0

RECURSIVE SumGains(_, _)
SumGains(data, to) == IF to < 2 THEN 0 ELSE SumGains(data, to - 1) + Gain(data, to)

RECURSIVE SumLosses(_, _)
SumLosses(data, to) == IF to < 2 THEN 0 ELSE SumLosses(data, to - 1) + Loss(data, to)

RECURSIVE AvgGainAt(_, _, _)
\* lines 609, 623: avgGain once the i-th point (i >= period + 1) is in
AvgGainAt(data, period, i) ==
    IF i = period + 1 THEN Rat(SumGains(data, period + 1), period)
    ELSE RatDiv(RatAdd(RatMul(AvgGainAt(data, period, i - 1), FromInt(period - 1)),
                       FromInt(Gain(data, i))),
                FromInt(period))

RECURSIVE AvgLossAt(_, _, _)
\* lines 610, 624
AvgLossAt(data, period, i) ==
    IF i = period + 1 THEN Rat(SumLosses(data, period + 1), period)
    ELSE RatDiv(RatAdd(RatMul(AvgLossAt(data, period, i - 1), FromInt(period - 1)),
                       FromInt(Loss(data, i))),
                FromInt(period))

\* lines 614-615, 629-630: 100 - (100 / (1 + avgGain / avgLoss))
RsiOf(avgGain, avgLoss) ==
    RatSub(FromInt(100),
           RatDiv(FromInt(100), RatAdd(FromInt(1), RatDiv(avgGain, avgLoss))))

\* lines 614-631: the first value is computed without the test of avgLoss,
\* the later ones with it
RsiAt(data, period, i) ==
    LET avgGain == AvgGainAt(data, period, i)
        avgLoss == AvgLossAt(data, period, i)
    IN  IF i = period + 1 THEN RsiOf(avgGain, avgLoss)
        ELSE IF avgLoss = FromInt(0) THEN FromInt(100)
        ELSE RsiOf(avgGain, avgLoss)

\* lines 597-635
calculateRSI(data, period) ==
    IF Len(data) < period + 1 THEN <<>>
    ELSE [j \in 1..(Len(data) - period) |->
             Point(data[j + period].date, RsiAt(data, period, j + period))]

Closes == {10, 11, 13}

-----------------------------------------------------------------------------
(* The Dashboard's latest readings (page.tsx lines 35-102), derived from   *)
(* the dataset in state, or from empty series when there is none.          *)

\* an empty series read as not a number
getLastNaN(arr) == IF Len(arr) > 0 THEN arr[Len(arr)].value ELSE NaN

\* page.tsx line 35
getLast(arr) == IF Len(arr) > 0 THEN arr[Len(arr)].value ELSE FromInt(0)

\* the points of a stored series, their values as fractions
Exact(series) == [i \in 1..Len(series) |-> Point(series[i].date, FromInt(series[i].value))]

\* page.tsx lines 49-54 (and 61-65): the percentage distance of each point
\* from the indicator's value of the same date, 0 where there is none or it
\* is falsy (0 or NaN)
PctDiff(data, ind) ==
    [i \in 1..Len(data) |->
        LET hits == {j \in 1..Len(ind) : ind[j].date = data[i].date}
        IN  IF hits = {} THEN Point(data[i].date, FromInt(0))
            ELSE LET v == ind[CHOOSE j \in hits : \A k \in hits : j <= k].value
                 IN  IF v[1] = 0 THEN Point(data[i].date, FromInt(0))
                     ELSE Point(data[i].date,
                                RatMul(RatSub(RatDiv(FromInt(data[i].value), v), FromInt(1)),
                                       FromInt(100)))]

\* fifteen daily closes, enough for one 14-day RSI value
LongDaily ==
    [i \in 1..15 |-> Point(Ymd(2024, 1, i), 100 + 2 * i - 3 * (i % 3))]

DailySeries ==
    {LongDaily} \cup
    UNION {{[i \in 1..n |-> Point(Ymd(2024, 1, i), v[i])] : v \in [1..n -> Closes]}
              : n \in 1..MaxPoints}

VixSeries == {<<>>} \cup {<<Point(Ymd(2024, 1, 2), v)>> : v \in {15, 25, 35}}

BreadthSeries == {<<>>, <<Point(Ymd(2024, 1, 2), 180)>>}

NoData == [t |-> "null"]

InitReadings ==
    /\ clock = 0
    /\ storage = NoItem
    /\ API_KEY = ""
    /\ LEGACY_API_KEY = ""
    /\ localDayShift = 0
    /\ TabInit({})
    /\ dash = NoDash
    /\ \/ calc = [phase |-> "state", data |-> NoData]
       \/ \E d \in DailySeries, v \in VixSeries, b \in BreadthSeries,
             pe \in {<<0, 1>>, <<21, 1>>, <<24, 1>>} :
             calc = [phase |-> "state",
                     data |-> [t |-> "dataset", spyDaily |-> d, vixDaily |-> v,
                               breadth |-> b, peRatio |-> pe]]

\* page.tsx lines 38-102: a render derives the latest readings
Derive ==
    /\ calc.phase = "state"
    /\ LET data         == calc.data
           spyDaily     == IF data = NoData THEN <<>> ELSE data.spyDaily
           vixDaily     == IF data = NoData THEN <<>> ELSE data.vixDaily
           breadthDaily == IF data = NoData THEN <<>> ELSE data.breadth
           ema50d       == calculateEMA(spyDaily, 50)
           diffEma50d   == PctDiff(spyDaily, ema50d)
           rsiDaily     == calculateRSI(spyDaily, 14)
           breadthSma20 == calculateSMA(breadthDaily, 20)
           diffBreadthSma20 == PctDiff(breadthDaily, breadthSma20)
       IN  dash' = [phase |-> "readings", hasData |-> data # NoData,
                    dataPe |-> IF data = NoData THEN <<0, 1>> ELSE data.peRatio,
                    valEma50d |-> getLast(diffEma50d),
                    valRsiDaily |-> getLast(rsiDaily),
                    valBreadth |-> getLast(diffBreadthSma20),
                    valVix |-> getLast(Exact(vixDaily)),
                    peRatio |-> NaN, rawScore |-> 0, isSafetyWarning |-> FALSE,
                    leverageScore |-> 0]
    /\ calc' = [calc EXCEPT !.phase = "derived"]
    /\ UNCHANGED <<clock, storage, API_KEY, LEGACY_API_KEY, localDayShift, pc, caller,
                   ep, now, loc, inflight, fetched, ret, log>>

NextReadings == Derive \/ Render

SpecReadings == InitReadings /\ [][NextReadings]_vars

-----------------------------------------------------------------------------

InitIndicators ==
    /\ clock = 0
    /\ storage = NoItem
    /\ API_KEY = ""
    /\ LEGACY_API_KEY = ""
    /\ localDayShift = 0
    /\ TabInit({})
    /\ dash = NoDash
    /\ \E n \in 0..MaxPoints, period \in 1..MaxPeriod : \E v \in [1..n -> Closes] :
          calc = [phase |-> "input",
                  data |-> [i \in 1..n |-> Point(Ymd(2024, 1, i), v[i])],
                  period |-> period, result |-> <<>>]

SMA ==
    /\ calc.phase = "input"
    /\ calc' = [calc EXCEPT !.phase = "sma",
                            !.result = calculateSMA(calc.data, calc.period)]
    /\ UNCHANGED <<clock, storage, API_KEY, LEGACY_API_KEY, localDayShift, pc, caller,
                   ep, now, loc, inflight, fetched, ret, log, dash>>

EMA ==
    /\ calc.phase = "input"
    /\ calc' = [calc EXCEPT !.phase = "ema",
                            !.result = calculateEMA(calc.data, calc.period)]
    /\ UNCHANGED <<clock, storage, API_KEY, LEGACY_API_KEY, localDayShift, pc, caller,
                   ep, now, loc, inflight, fetched, ret, log, dash>>

RSI ==
    /\ calc.phase = "input"
    /\ calc' = [calc EXCEPT !.phase = "rsi",
                            !.result = calculateRSI(calc.data, calc.period)]
    /\ UNCHANGED <<clock, storage, API_KEY, LEGACY_API_KEY, localDayShift, pc, caller,
                   ep, now, loc, inflight, fetched, ret, log, dash>>

NextIndicators == SMA \/ EMA \/ RSI

SpecIndicators == InitIndicators /\ [][NextIndicators]_vars

-----------------------------------------------------------------------------
(* The normaliser and the resamplers on their own: every payload of up to  *)
(* MaxBars bars, in any order, repeated dates included                     *)

\* two days of ISO week 2024-W01, one of 2024-W03, one of 2024-W05, and two
\* days of ISO week 2025-W01 on either side of the new year
PayloadDates == {20240103, 20240105, 20240120, 20240203, 20241230, 20250102}

\* the close of the i-th bar of a payload: 10, 12, 15, 19, ... all different
CloseAt(i) == 10 + ((i - 1) * (i + 2)) \div 2

InitSeries ==
    /\ clock = 0
    /\ storage = NoItem
    /\ API_KEY = ""
    /\ LEGACY_API_KEY = ""
    /\ localDayShift \in DayShifts
    /\ TabInit({})
    /\ dash = NoDash
    /\ \E n \in 0..MaxBars : \E d \in [1..n -> PayloadDates] :
          calc = [phase |-> "payload",
                  historical |-> [i \in 1..n |-> Bar(d[i], CloseAt(i))],
                  daily |-> <<>>, weekly |-> <<>>, monthly |-> <<>>, reweekly |-> <<>>]

\* lines 488-489: const spyDaily = parseFMPHistory(spyFull)
Normalise ==
    /\ calc.phase = "payload"
    /\ calc' = [calc EXCEPT !.phase = "daily",
                            !.daily = parseFMPHistory(JObject(FALSE, TRUE, calc.historical))]
    /\ UNCHANGED <<clock, storage, API_KEY, LEGACY_API_KEY, localDayShift, pc, caller,
                   ep, now, loc, inflight, fetched, ret, log, dash>>

\* lines 549-550
Resample ==
    /\ calc.phase = "daily"
    /\ calc' = [calc EXCEPT !.phase = "resampled",
                            !.weekly = resampleToWeekly(calc.daily, localDayShift),
                            !.monthly = resampleToMonthly(calc.daily)]
    /\ UNCHANGED <<clock, storage, API_KEY, LEGACY_API_KEY, localDayShift, pc, caller,
                   ep, now, loc, inflight, fetched, ret, log, dash>>

\* resampleToWeekly applied to a series that is weekly already
ResampleAgain ==
    /\ calc.phase = "resampled"
    /\ calc' = [calc EXCEPT !.phase = "reweekly",
                            !.reweekly = resampleToWeekly(calc.weekly, localDayShift)]
    /\ UNCHANGED <<clock, storage, API_KEY, LEGACY_API_KEY, localDayShift, pc, caller,
                   ep, now, loc, inflight, fetched, ret, log, dash>>

NextSeries == Normalise \/ Resample \/ ResampleAgain

SpecSeries == InitSeries /\ [][NextSeries]_vars

-----------------------------------------------------------------------------
(* The indicators in the arithmetic the runtime uses.  A JS number is an   *)
(* IEEE 754 binary64 value: each +, -, * and / returns the exact result    *)
(* rounded to 53 significant bits, ties to even.  The values met here are  *)
(* finite and far from the ends of the exponent range.                     *)

\* natural numbers of any size: the limbs, least significant first, each
\* below Base, the last one not 0
Base == 2 ^ 15

RECURSIVE BNorm(_)
BNorm(a) ==
    IF a = <<>> THEN <<>>
    ELSE IF a[Len(a)] = 0 THEN BNorm(SubSeq(a, 1, Len(a) - 1))
    ELSE a

RECURSIVE BFromInt(_)
BFromInt(n) == IF n = 0 THEN <<>> ELSE <<n % Base>> \o BFromInt(n \div Base)

Limb(a, i) == IF i <= Len(a) THEN a[i] ELSE 0

RECURSIVE BAddFrom(_, _, _, _)
BAddFrom(a, b, i, carry) ==
    IF i > Len(a) /\ i > Len(b) THEN (IF carry = 0 THEN <<>> ELSE <<carry>>)
    ELSE LET s == Limb(a, i) + Limb(b, i) + carry
         IN  <<s % Base>> \o BAddFrom(a, b, i + 1, s \div Base)

BAdd(a, b) == BAddFrom(a, b, 1, 0)

RECURSIVE BSubFrom(_, _, _, _)
BSubFrom(a, b, i, borrow) ==
    IF i > Len(a) THEN <<>>
    ELSE LET d == Limb(a, i) - Limb(b, i) - borrow
         IN  IF d < 0 THEN <<d + Base>> \o BSubFrom(a, b, i + 1, 1)
             ELSE <<d>> \o BSubFrom(a, b, i + 1, 0)

\* a - b, for a >= b
BSub(a, b) == BNorm(BSubFrom(a, b, 1, 0))

RECURSIVE BCmpAt(_, _, _)
BCmpAt(a, b, i) ==
    IF i = 0 THEN 0
    ELSE IF a[i] < b[i] THEN 0 - 1
    ELSE IF a[i] > b[i] THEN 1
    ELSE BCmpAt(a, b, i - 1)

\* -1, 0 or 1 as a is below, equal to or above b
BCmp(a, b) ==
    IF Len(a) < Len(b) THEN 0 - 1
    ELSE IF Len(a) > Len(b) THEN 1
    ELSE BCmpAt(a, b, Len(a))

RECURSIVE BMulSmallFrom(_, _, _, _)
BMulSmallFrom(a, k, i, carry) ==
    IF i > Len(a) THEN (IF carry = 0 THEN <<>> ELSE <<carry>>)
    ELSE LET p == a[i] * k + carry
         IN  <<p % Base>> \o BMulSmallFrom(a, k, i + 1, p \div Base)

\* a * k, for 0 <= k < Base
BMulSmall(a, k) == BNorm(BMulSmallFrom(a, k, 1, 0))

RECURSIVE BMulFrom(_, _, _)
BMulFrom(a, b, j) ==
    IF j > Len(b) THEN <<>>
    ELSE BAdd(BMulSmall(a, b[j]), <<0>> \o BMulFrom(a, b, j + 1))

BMul(a, b) == BNorm(BMulFrom(a, b, 1))

RECURSIVE BDivSmallTop(_, _)
BDivSmallTop(a, k) ==
    IF a = <<>> THEN [q |-> <<>>, r |-> 0]
    ELSE LET hi  == BDivSmallTop(Tail(a), k)
             cur == hi.r * Base + Head(a)
         IN  [q |-> <<cur \div k>> \o hi.q, r |-> cur % k]

\* quotient and remainder of a by k, for 0 < k < Base
BDivSmall(a, k) ==
    LET d == BDivSmallTop(a, k) IN [q |-> BNorm(d.q), r |-> d.r]

\* a * 2^n and floor(a / 2^n)
BShl(a, n) ==
    IF a = <<>> THEN <<>>
    ELSE [i \in 1..(n \div 15) |-> 0] \o BMulSmall(a, 2 ^ (n % 15))
BShr(a, n) ==
    IF Len(a) <= n \div 15 THEN <<>>
    ELSE BDivSmall(SubSeq(a, n \div 15 + 1, Len(a)), 2 ^ (n % 15)).q

RECURSIVE BitLenSmall(_)
BitLenSmall(x) == IF x = 0 THEN 0 ELSE 1 + BitLenSmall(x \div 2)

\* the number of significant bits of a
BBitLen(a) == IF a = <<>> THEN 0 ELSE 15 * (Len(a) - 1) + BitLenSmall(a[Len(a)])

BIsOdd(a) == a # <<>> /\ a[1] % 2 = 1

\* a finite binary64 value: (-1)^neg * man * 2^exp, with man of exactly 53
\* bits, or man = 0 for zero (the sign of zero is not kept: -0 === 0)
Float(neg, man, exp) == [neg |-> neg, man |-> man, exp |-> exp]
Zero64 == Float(FALSE, <<>>, 0)

\* the binary64 value nearest to n * 2^e (to n * 2^e plus a positive amount
\* below 2^e when `sticky`), ties to even
Round64(neg, n, e, sticky) ==
    IF n = <<>> THEN Zero64
    ELSE LET len == BBitLen(n)
         IN  IF len <= 53 THEN Float(neg, BShl(n, 53 - len), e - (53 - len))
             ELSE LET sh   == len - 53
                      q    == BShr(n, sh)
                      rest == BSub(n, BShl(q, sh))
                      c    == BCmp(rest, BShl(<<1>>, sh - 1))
                      up   == c > 0 \/ (c = 0 /\ (sticky \/ BIsOdd(q)))
                      q2   == IF up THEN BAdd(q, <<1>>) ELSE q
                  IN  IF BBitLen(q2) > 53 THEN Float(neg, BShr(q2, 1), e + sh + 1)
                      ELSE Float(neg, q2, e + sh)

\* x + y
Add64(x, y) ==
    IF x.man = <<>> THEN y
    ELSE IF y.man = <<>> THEN x
    ELSE LET e  == Min(x.exp, y.exp)
             nx == BShl(x.man, x.exp - e)
             ny == BShl(y.man, y.exp - e)
             c  == BCmp(nx, ny)
         IN  IF x.neg = y.neg THEN Round64(x.neg, BAdd(nx, ny), e, FALSE)
             ELSE IF c = 0 THEN Zero64
             ELSE IF c > 0 THEN Round64(x.neg, BSub(nx, ny), e, FALSE)
             ELSE Round64(y.neg, BSub(ny, nx), e, FALSE)

\* x - y
Sub64(x, y) == Add64(x, [y EXCEPT !.neg = ~y.neg])

\* x * y
Mul64(x, y) ==
    IF x.man = <<>> \/ y.man = <<>> THEN Zero64
    ELSE Round64(x.neg # y.neg, BMul(x.man, y.man), x.exp + y.exp, FALSE)

\* x / k for a whole number k, 0 < k < Base
DivInt64(x, k) ==
    IF x.man = <<>> THEN Zero64
    ELSE LET d == BDivSmall(BShl(x.man, 60), k)
         IN  Round64(x.neg, d.q, x.exp - 60, d.r # 0)

\* the number a whole-number literal denotes
FromInt64(n) == Round64(FALSE, BFromInt(n), 0, FALSE)

\* the binary64 value nearest to num / den, for whole numbers num >= 0 and
\* 0 < den < Base
FromRatio(num, den) ==
    LET d == BDivSmall(BShl(BFromInt(num), 75), den)
    IN  Round64(FALSE, d.q, 0 - 75, d.r # 0)

\* the number JSON.parse gives for a price written with two decimals
FromCents(cents) == FromRatio(cents, 100)

RECURSIVE SumUp64(_, _, _)
\* lines 584-585: ((0 + data[from].value) + ...) + data[to].value
SumUp64(data, from, to) ==
    IF from > to THEN Zero64 ELSE Add64(SumUp64(data, from, to - 1), data[to].value)

RECURSIVE SumDown64(_, _, _)
\* lines 641-642: ((0 + data[to].value) + ...) + data[from].value
SumDown64(data, from, to) ==
    IF from > to THEN Zero64 ELSE Add64(SumDown64(data, from + 1, to), data[from].value)

\* the mean of all the values up to each point
calculateSMA64Cumulative(data, period) ==
    IF Len(data) < period THEN <<>>
    ELSE [j \in 1..(Len(data) - period + 1) |->
             Point(data[j + period - 1].date,
                   DivInt64(SumDown64(data, 1, j + period - 1), j + period - 1))]

\* lines 637-646 in binary64
calculateSMA64(data, period) ==
    IF Len(data) < period THEN <<>>
    ELSE [j \in 1..(Len(data) - period + 1) |->
             Point(data[j + period - 1].date,
                   DivInt64(SumDown64(data, j, j + period - 1), period))]

\* the sum of the first `period` values divided by one more than `period`
EmaSeed64Short(data, period) == DivInt64(SumUp64(data, 1, period), period + 1)

\* lines 584-586: the first value of `ema`
EmaSeed64(data, period) == DivInt64(SumUp64(data, 1, period), period)

\* line 580
K64(period) == DivInt64(FromInt64(2), period + 1)

RECURSIVE EmaAt64(_, _, _)
\* line 591: the value of `ema` once the i-th point (i >= period) is in
EmaAt64(data, period, i) ==
    IF i = period THEN EmaSeed64(data, period)
    ELSE LET prev == EmaAt64(data, period, i - 1)
         IN  Add64(Mul64(Sub64(data[i].value, prev), K64(period)), prev)

\* an average seeded with the first point, one output per input point
calculateEMA64Unseeded(data, period) ==
    [j \in 1..Len(data) |-> Point(data[j].date, EmaAt64(data, 1, j))]

\* lines 578-595 in binary64
calculateEMA64(data, period) ==
    IF Len(data) = 0 THEN <<>>
    ELSE IF Len(data) < period THEN <<>>
    ELSE [j \in 1..(Len(data) - period + 1) |->
             Point(data[j + period - 1].date, EmaAt64(data, period, j + period - 1))]

\* prices with two decimals, in hundredths: 0.10, 0.20, 0.30 and 1.00
PriceCents == {10, 20, 30, 100}

\* five whole closes: 100, 102, 101, 105, 107
WholeCloses == <<10000, 10200, 10100, 10500, 10700>>

\* a daily series with the given closes, as JSON.parse delivers them
SeriesOf(cents) == [i \in 1..Len(cents) |-> Point(Ymd(2024, 1, i), FromCents(cents[i]))]

InitBinary64 ==
    /\ clock = 0
    /\ storage = NoItem
    /\ API_KEY = ""
    /\ LEGACY_API_KEY = ""
    /\ localDayShift = 0
    /\ TabInit({})
    /\ dash = NoDash
    /\ \E period \in 1..MaxPeriod :
          \E cents \in {WholeCloses} \cup UNION {[1..n -> PriceCents] : n \in 0..MaxPoints} :
             calc = [phase |-> "input64", cents |-> cents, data |-> SeriesOf(cents),
                     period |-> period, result |-> <<>>]

SMA64 ==
    /\ calc.phase = "input64"
    /\ calc' = [calc EXCEPT !.phase = "sma64",
                            !.result = calculateSMA64(calc.data, calc.period)]
    /\ UNCHANGED <<clock, storage, API_KEY, LEGACY_API_KEY, localDayShift, pc, caller,
                   ep, now, loc, inflight, fetched, ret, log, dash>>

EMA64 ==
    /\ calc.phase = "input64"
    /\ calc' = [calc EXCEPT !.phase = "ema64",
                            !.result = calculateEMA64(calc.data, calc.period)]
    /\ UNCHANGED <<clock, storage, API_KEY, LEGACY_API_KEY, localDayShift, pc, caller,
                   ep, now, loc, inflight, fetched, ret, log, dash>>

NextBinary64 == SMA64 \/ EMA64

SpecBinary64 == InitBinary64 /\ [][NextBinary64]_vars

-----------------------------------------------------------------------------
(* Observations used by the properties *)

\* the step is getMarketHistory's first of a cycle of tab t
Begins(t) == pc[t] = "mounted" /\ pc'[t] # "mounted"

\* the step is the return of fetchFMP(e) into getMarketHistory of tab t
Returns(t, e) ==
    /\ pc[t] = "await" /\ caller[t] = "getMarketHistory"
    /\ ep[t] = e /\ log'[t] # log[t]

\* the stored text is an entry { timestamp, data } with a non-empty primary
\* daily series
ValidEntry(text) ==
    /\ text.t = "string" /\ text.syntax = "json" /\ text.value.t = "cacheObj"
    /\ text.value.data # JNull
    /\ Len(text.value.data.spyDaily) > 0

Count(lg, kind) == Cardinality({i \in 1..Len(lg) : lg[i][1] = kind})

NoKey == API_KEY = "" /\ LEGACY_API_KEY = ""

\* all the closes are the same, and all are whole numbers
Constant(cents) == \A i, j \in 1..Len(cents) : cents[i] = cents[j]
Whole(cents) == \A i \in 1..Len(cents) : cents[i] % 100 = 0

RECURSIVE SumCents(_, _, _)
SumCents(cents, from, to) ==
    IF from > to THEN 0 ELSE SumCents(cents, from, to - 1) + cents[to]

\* |a - b|
BDist(a, b) == IF BCmp(a, b) >= 0 THEN BSub(a, b) ELSE BSub(b, a)

\* the positive binary64 values x and y differ by at most ulps * 2^-52 * y
Within(x, y, ulps) ==
    LET e  == Min(x.exp, y.exp)
        nx == BShl(x.man, x.exp - e)
        ny == BShl(y.man, y.exp - e)
    IN  /\ ~x.neg /\ ~y.neg
        /\ BCmp(BShl(BDist(nx, ny), 52), BMulSmall(ny, ulps)) <= 0

\* the positive binary64 value x differs from the fraction num / den by at
\* most ulps * 2^-52 * num / den
WithinOfRatio(x, num, den, ulps) ==
    LET a == BShl(BMulSmall(x.man, den), Max(0, x.exp))
        b == BShl(BFromInt(num), Max(0, 0 - x.exp))
    IN  /\ ~x.neg
        /\ BCmp(BShl(BDist(a, b), 52), BMulSmall(b, ulps)) <= 0

-----------------------------------------------------------------------------
(* Properties *)

\* C1: whatever the latest readings, the valuation ratio and the presence of
\* data, the final leverage score lies in [0, 100], and it is at most 45
\* whenever the valuation ratio (of the dataset, or the one the page uses)
\* exceeds 22.
C1_ScoreClamp ==
    dash.phase = "rendered" =>
        /\ dash.leverageScore >= 0
        /\ dash.leverageScore <= 100
        /\ (RatGt(dash.peRatio, 22) => dash.leverageScore <= 45)
        /\ (dash.hasData /\ RatGt(dash.dataPe, 22) => dash.leverageScore <= 45)

\* C1 witness: every bullish adjustment applies (raw 110, clamped to 100) and
\* the valuation cap brings the score to 45.
C1_Witness ==
    /\ dash.phase = "rendered" /\ dash.hasData
    /\ RatGt(dash.valEma50d, 0) /\ RatGt(dash.valBreadth, 0)
    /\ RatLt(dash.valRsiDaily, 30) /\ RatLt(dash.valVix, 20)
    /\ dash.rawScore = 100
    /\ RatGt(dash.dataPe, 22)
    /\ dash.leverageScore = 45

\* C2 (as amended): a getMarketHistory call whose cache read happens at an
\* instant t < T + CACHE_DURATION_MS, T being the timestamp of a stored
\* entry with a non-empty primary series, resolves at once to that entry's
\* dataset, issues no provider call and leaves the entry alone; and the
\* timestamp of an entry is the Date.now() its writing cycle took at its
\* start, which is not later than the instant of the write.
C2_FreshEntryServed ==
    [][\A t \in Tabs :
          /\ (Begins(t) /\ ValidEntry(storage)
                /\ clock < storage.value.timestamp + CACHE_DURATION_MS)
             => /\ pc'[t] = "resolved"
                /\ ret'[t] = storage.value.data
                /\ log'[t] = <<Event("getItem", "")>>
                /\ inflight'[t] = <<>>
                /\ storage' = storage
          /\ (pc[t] = "await" /\ pc'[t] # "await" /\ storage' # storage)
             => /\ storage' = JSONStringify(CacheObj(now[t], ret'[t]))
                /\ now[t] <= clock'
      ]_vars

\* C2 witness: an entry stamped 0 is served to a call that reads the cache
\* one millisecond before the window ends.
C2_Witness ==
    /\ pc["tab1"] = "resolved"
    /\ now["tab1"] = CACHE_DURATION_MS - 1
    /\ ValidEntry(storage) /\ storage.value.timestamp = 0
    /\ ret["tab1"] = storage.value.data
    /\ log["tab1"] = <<Event("getItem", "")>>

\* C2 (as claimed): the same, with the entry's timestamp being the instant
\* of its write.
C2_TimestampIsWriteInstant ==
    [][\A t \in Tabs :
          /\ (Begins(t) /\ ValidEntry(storage)
                /\ clock < storage.value.timestamp + CACHE_DURATION_MS)
             => /\ pc'[t] = "resolved"
                /\ ret'[t] = storage.value.data
                /\ log'[t] = <<Event("getItem", "")>>
                /\ inflight'[t] = <<>>
                /\ storage' = storage
          /\ (pc[t] = "await" /\ pc'[t] # "await" /\ storage' # storage)
             => /\ storage'.value.data = ret'[t]
                /\ storage'.value.timestamp = clock'
      ]_vars

\* C3: a call whose cache read happens when now - timestamp >= the freshness
\* window does not return from the cache: with a key it issues the primary
\* provider call and suspends on it, without one it resolves to null.
C3_StaleEntryRefetched ==
    [][\A t \in Tabs :
          (Begins(t) /\ ValidEntry(storage)
             /\ clock - storage.value.timestamp >= CACHE_DURATION_MS)
          => IF NoKey
             THEN pc'[t] = "resolved" /\ ret'[t] = JNull /\ inflight'[t] = <<>>
             ELSE /\ pc'[t] = "await"
                  /\ ret'[t] = Pending
                  /\ Len(inflight'[t]) = 1
                  /\ inflight'[t][1].endpoint = "historical-price-full/SPY"
                  /\ log'[t] = <<Event("getItem", ""),
                                 Event("fetch", "historical-price-full/SPY")>>
      ]_vars

\* C3 witness: an entry stamped 0 is read exactly one window later and the
\* primary call is in flight.
C3_Witness ==
    /\ pc["tab1"] = "await"
    /\ now["tab1"] = CACHE_DURATION_MS
    /\ ValidEntry(storage) /\ storage.value.timestamp = 0
    /\ Len(inflight["tab1"]) = 1
    /\ inflight["tab1"][1].endpoint = "historical-price-full/SPY"

\* C4: when the primary series fetch returns null or an empty series, the
\* cycle resolves to null in that very step, the cache is not written (no
\* setItem in the cycle, the stored text unchanged) and no provider call is
\* issued after it.
C4_PrimaryFailureAborts ==
    [][\A t \in Tabs :
          (Returns(t, "historical-price-full/SPY")
             /\ Len(parseFMPHistory(fetched'[t].value)) = 0)
          => /\ pc'[t] = "resolved"
             /\ ret'[t] = JNull
             /\ storage' = storage
             /\ inflight'[t] = <<>>
             /\ log'[t] = <<Event("getItem", ""),
                            Event("fetch", "historical-price-full/SPY"),
                            Event("returned", "historical-price-full/SPY")>>
      ]_vars

\* C4 witness: the provider answered the primary call with an empty history;
\* the cycle has resolved to null after that one call, the cache still holds
\* the entry it held.
C4_Witness ==
    /\ pc["tab1"] = "resolved" /\ ret["tab1"] = JNull
    /\ fetched["tab1"].endpoint = "historical-price-full/SPY"
    /\ fetched["tab1"].value = JObject(FALSE, TRUE, <<>>)
    /\ Count(log["tab1"], "fetch") = 1
    /\ Count(log["tab1"], "setItem") = 0
    /\ ValidEntry(storage)

\* C5: once the primary series has succeeded, a failed secondary fetch does
\* not fail the cycle: when the volatility history comes back null or empty,
\* vixDaily becomes exactly the one point (vixDate, vixValue) and the next
\* call is issued; when the last fetch (breadth) returns, the cycle resolves
\* to a dataset that carries that vixDaily and the parsed breadth series
\* (empty when the fetch failed), performs its one setItem, and the stored
\* text becomes the entry of that dataset unless setItem itself threw.
C5_SecondaryFailureAbsorbed ==
    [][\A t \in Tabs :
          /\ (Returns(t, "historical-price-full/%5EVIX")
                /\ Len(parseFMPHistory(fetched'[t].value)) = 0)
             => /\ loc'[t].vixDaily = <<Point(loc[t].vixDate, loc[t].vixValue)>>
                /\ pc'[t] = "await"
                /\ ep'[t] = "quote/SPY"
          /\ Returns(t, "historical-price-full/RSP")
             => /\ pc'[t] = "resolved"
                /\ ret'[t] # JNull
                /\ ret'[t].spyDaily = loc[t].spyDaily
                /\ ret'[t].vixDaily = loc[t].vixDaily
                /\ Len(ret'[t].vixDaily) >= 1
                /\ ret'[t].breadth = parseFMPHistory(fetched'[t].value)
                /\ (fetched'[t].value = JNull => ret'[t].breadth = <<>>)
                /\ Count(log'[t], "setItem") = 1
                /\ log'[t][Len(log'[t])] = Event("setItem", "")
                /\ storage' \in {JSONStringify(CacheObj(now[t], ret'[t])), storage}
      ]_vars

\* C5 witness: the volatility quote, the volatility history and the breadth
\* history all failed; the cycle resolved to a dataset with the one synthetic
\* point (today, 15) and an empty breadth series, and the cache holds it.
C5_Witness ==
    /\ pc["tab1"] = "resolved" /\ ret["tab1"] # JNull
    /\ ret["tab1"].vixDaily = <<Point(TodayISO(clock), 15)>>
    /\ ret["tab1"].breadth = <<>>
    /\ Len(ret["tab1"].spyDaily) = 3
    /\ fetched["tab1"].endpoint = "historical-price-full/RSP"
    /\ fetched["tab1"].value = JNull
    /\ storage = JSONStringify(CacheObj(now["tab1"], ret["tab1"]))

\* the provider gave no usable valuation: estimates null, empty or without a
\* usable earnings figure, and no P/E in the quote
NoUsableEstimate(estimates) ==
    \/ ~ArrayNonEmpty(estimates)
    \/ /\ estimates.items[1].estimatedEarningsAvg = 0
       /\ estimates.items[1].estimatedEpsAvg = 0

QuoteHasNoPE(spyQuote) ==
    ~(ArrayNonEmpty(spyQuote) /\ RatTruthy(spyQuote.items[1].pe))

\* C6 (as claimed): after the estimates call has returned, if the provider
\* gave no usable earnings figure and the quote carries no P/E, the valuation
\* ratio is 23.1 and the cycle goes on to the breadth fetch.
C6_DefaultValuation ==
    \A t \in Tabs :
        (/\ pc[t] = "await" /\ caller[t] = "getMarketHistory"
         /\ fetched[t].endpoint = "analyst-estimates/SPY"
         /\ NoUsableEstimate(fetched[t].value)
         /\ QuoteHasNoPE(loc[t].spyQuote))
        => /\ loc[t].peRatio = <<231, 10>>
           /\ ep[t] = "historical-price-full/RSP"

\* C7: an invocation of fetchFMP makes at most one network call and never
\* raises; it returns null without any network call when neither key is
\* set, null when the call is rejected, when the body is not JSON, when the
\* body is JSON null and when it carries "Error Message"; otherwise it
\* returns the parsed body.
C7_FetchFMPContract ==
    \A t \in Tabs :
        /\ Len(inflight[t]) <= 1
        /\ fetched[t].netCalls <= 1
        /\ pc[t] = "returned" =>
              LET f == fetched[t]
              IN  /\ ~f.threw
                  /\ IF NoKey
                     THEN f.value = JNull /\ f.netCalls = 0 /\ f.resp = NoResponse
                     ELSE /\ f.netCalls = 1
                          /\ f.resp # NoResponse
                          /\ (f.resp \in {FetchRejected, BodyNotJson, Body(JNull)}
                                => f.value = JNull)
                          /\ (f.resp.kind = "json" /\ f.resp.body.t = "object"
                                /\ f.resp.body.errorMessage => f.value = JNull)
                          /\ (f.resp.kind = "json" /\ f.resp.body.t = "array"
                                => f.value = f.resp.body)
                          /\ (f.resp.kind = "json" /\ f.resp.body.t = "object"
                                /\ ~f.resp.body.errorMessage => f.value = f.resp.body)

\* C7 witness: with only the legacy key set, the one call was answered with
\* an "Error Message" body and fetchFMP returned null.
C7_Witness ==
    /\ pc["tab1"] = "returned"
    /\ API_KEY = "" /\ LEGACY_API_KEY # ""
    /\ fetched["tab1"].netCalls = 1
    /\ fetched["tab1"].resp = Body(ErrorBody)
    /\ fetched["tab1"].value = JNull
    /\ ~fetched["tab1"].threw

\* C8: with neither key set, no network call is ever issued; a cycle
\* resolves to the dataset of a fresh entry if the cache holds one and to
\* null otherwise.
C8_NoKeyNoNetwork ==
    NoKey =>
        \A t \in Tabs :
            /\ inflight[t] = <<>>
            /\ Count(log[t], "fetch") = 0
            /\ pc[t] \notin {"await", "rejected"}
            /\ pc[t] = "resolved" =>
                  IF ValidEntry(storage)
                      /\ now[t] - storage.value.timestamp < CACHE_DURATION_MS
                  THEN ret[t] = storage.value.data
                  ELSE ret[t] = JNull

\* C8 witness: no key, the only entry in the cache is one window old, and the
\* cycle has resolved to null having only read the cache.
C8_Witness ==
    /\ NoKey
    /\ pc["tab1"] = "resolved" /\ ret["tab1"] = JNull
    /\ ValidEntry(storage)
    /\ now["tab1"] - storage.value.timestamp >= CACHE_DURATION_MS
    /\ log["tab1"] = <<Event("getItem", "")>>

\* C9: within a cycle at most one provider call is in flight, and every
\* provider call but the first is issued right after the return of the one
\* before it.
C9_OneCallInFlight ==
    \A t \in Tabs :
        /\ Len(inflight[t]) <= 1
        /\ \A i \in 1..Len(log[t]) :
              (log[t][i][1] = "fetch" /\ Count(SubSeq(log[t], 1, i - 1), "fetch") > 0)
              => /\ log[t][i - 1][1] = "returned"
                 /\ Count(SubSeq(log[t], 1, i), "fetch")
                      = Count(SubSeq(log[t], 1, i), "returned") + 1

\* C9 witness: the second call of a cycle is in flight, alone, issued after
\* the first had returned.
C9_Witness ==
    /\ pc["tab1"] = "await"
    /\ Len(inflight["tab1"]) = 1
    /\ inflight["tab1"][1].endpoint = "quote/%5EVIX"
    /\ log["tab1"] = <<Event("getItem", ""),
                       Event("fetch", "historical-price-full/SPY"),
                       Event("returned", "historical-price-full/SPY"),
                       Event("fetch", "quote/%5EVIX")>>

\* C10 (as claimed): every provider call of a cycle but the first is issued
\* later than the instant at which the call before it completed.
C10_DelayBetweenCalls ==
    \A t \in Tabs :
        \A i \in 1..Len(inflight[t]) :
            inflight[t][i].prevDoneAt # NoTime
            => inflight[t][i].issuedAt > inflight[t][i].prevDoneAt

\* C11: in a cycle the cache is read exactly once, as the first thing the
\* cycle does and before any provider call; it is written at most once, as
\* the last thing, after the last provider call (the breadth history) has
\* returned and with no call in flight; between the read and the write the
\* cycle only issues provider calls and takes their returns.
C11_CacheReadOnceWrittenOnce ==
    \A t \in Tabs :
        (caller[t] = "getMarketHistory" /\ log[t] # <<>>) =>
            LET lg == log[t]
                n  == Len(lg)
            IN  /\ lg[1] = Event("getItem", "")
                /\ Count(lg, "getItem") = 1
                /\ Count(lg, "setItem") <= 1
                /\ \A i \in 2..n :
                      lg[i][1] = "setItem"
                      => /\ i = n
                         /\ lg[i - 1] = Event("returned", "historical-price-full/RSP")
                         /\ Count(lg, "fetch") = Len(Endpoints)
                         /\ Count(lg, "returned") = Len(Endpoints)
                         /\ inflight[t] = <<>>
                         /\ pc[t] = "resolved"
                /\ \A i \in 2..n :
                      (i < n \/ pc[t] = "await") => lg[i][1] \in {"fetch", "returned"}

\* C11 witness: a cycle that read the cache first, made all six provider
\* calls and then wrote the cache.
C11_Witness ==
    /\ pc["tab1"] = "resolved"
    /\ Len(log["tab1"]) = 2 * Len(Endpoints) + 2
    /\ log["tab1"][1] = Event("getItem", "")
    /\ log["tab1"][2] = Event("fetch", "historical-price-full/SPY")
    /\ log["tab1"][Len(log["tab1"])] = Event("setItem", "")
    /\ storage = JSONStringify(CacheObj(now["tab1"], ret["tab1"]))

\* C12: when the stored text is no usable entry (not JSON, JSON null, no
\* timestamp, no data, or data with an empty primary series) the cycle
\* begins exactly as over an absent item: it does not raise, leaves the
\* stored text alone, resolves to null when no key is set and otherwise
\* issues the primary provider call.
C12_InvalidEntryIsAbsent ==
    [][\A t \in Tabs :
          (Begins(t) /\ storage \in {NoItem} \cup InvalidTexts(localDayShift))
          => /\ pc'[t] # "rejected"
             /\ storage' = storage
             /\ IF NoKey
                THEN /\ pc'[t] = "resolved" /\ ret'[t] = JNull
                     /\ inflight'[t] = <<>>
                     /\ log'[t] = <<Event("getItem", "")>>
                ELSE /\ pc'[t] = "await" /\ ret'[t] = Pending
                     /\ Len(inflight'[t]) = 1
                     /\ inflight'[t][1].endpoint = "historical-price-full/SPY"
                     /\ log'[t] = <<Event("getItem", ""),
                                    Event("fetch", "historical-price-full/SPY")>>
      ]_vars

\* C12 witness: the cache holds an entry stamped now whose data has an empty
\* primary series; the cycle has gone on to the primary provider call.
C12_Witness ==
    /\ storage = EmptySeriesText(localDayShift)
    /\ now["tab1"] = 0
    /\ pc["tab1"] = "await"
    /\ log["tab1"] = <<Event("getItem", ""), Event("fetch", "historical-price-full/SPY")>>

\* C13: when the setItem that ends a successful cycle throws, so that the
\* stored text does not become the new entry, the cycle still resolves (does
\* not reject) to the assembled dataset, and the stored text is what it was
\* before the write.
C13_FailedWriteNonFatal ==
    [][\A t \in Tabs :
          (/\ Returns(t, "historical-price-full/RSP")
           /\ storage' # JSONStringify(CacheObj(now[t], ret'[t])))
          => /\ pc'[t] = "resolved"
             /\ ret'[t] # JNull
             /\ ret'[t] = Result(loc[t], parseFMPHistory(fetched'[t].value), localDayShift)
             /\ log'[t][Len(log'[t])] = Event("setItem", "")
             /\ storage' = storage
      ]_vars

\* C13 witness: a cycle over a cache holding malformed text made its six
\* calls, its setItem threw, and it resolved to the dataset with the
\* malformed text still stored.
C13_Witness ==
    /\ pc["tab1"] = "resolved" /\ ret["tab1"] # JNull
    /\ Len(ret["tab1"].spyDaily) = 3
    /\ Count(log["tab1"], "setItem") = 1
    /\ storage = MalformedText

Ascending(s) == \A i \in 1..Len(s) - 1 : s[i].date <= s[i + 1].date

DateUnique(s) == \A i, j \in 1..Len(s) : i # j => s[i].date # s[j].date

\* C14 (as claimed): the series the normaliser makes of a payload is
\* ascending by date and holds no two points of the same date.
C14_SeriesAscendingUnique ==
    calc.phase \in {"daily", "resampled", "reweekly"} =>
        /\ Len(calc.daily) <= Len(calc.historical)
        /\ Ascending(calc.daily)
        /\ DateUnique(calc.daily)

\* ISO-8601: the week of a calendar day is the week of its Thursday, numbered
\* within the year that Thursday lies in
IsoWeekOf(date) ==
    LET z        == DaysFromCivil(date)
        thursday == z + 3 - ((GetDay(z) + 6) % 7)
        isoYear  == YearOf(CivilFromDays(thursday))
    IN  <<isoYear, 1 + (thursday - DaysFromCivil(Ymd(isoYear, 1, 1))) \div 7>>

IsoWeeksOf(s) == {IsoWeekOf(s[i].date) : i \in 1..Len(s)}

\* C15 (as claimed): the weekly series holds, for every ISO week that has a
\* daily point, exactly one point, which is a daily point of that week with
\* the week's latest date; it holds nothing else and is ordered by date.
C15_WeeklyByIsoWeek ==
    calc.phase \in {"resampled", "reweekly"} =>
        /\ \A w \in IsoWeeksOf(calc.daily) :
              /\ Cardinality({j \in 1..Len(calc.weekly) :
                                 IsoWeekOf(calc.weekly[j].date) = w}) = 1
              /\ \A j \in 1..Len(calc.weekly) :
                    IsoWeekOf(calc.weekly[j].date) = w
                    => /\ \E i \in 1..Len(calc.daily) : calc.daily[i] = calc.weekly[j]
                       /\ \A i \in 1..Len(calc.daily) :
                             IsoWeekOf(calc.daily[i].date) = w
                             => calc.daily[i].date <= calc.weekly[j].date
        /\ IsoWeeksOf(calc.weekly) = IsoWeeksOf(calc.daily)
        /\ Ascending(calc.weekly)

MonthsOf(s) == {MonthKey(s[i].date) : i \in 1..Len(s)}

\* the index of the last point of month m in s
LastOfMonth(s, m) ==
    CHOOSE i \in 1..Len(s) :
        /\ MonthKey(s[i].date) = m
        /\ \A k \in 1..Len(s) : MonthKey(s[k].date) = m => k <= i

\* C16: the monthly series holds, for every calendar month that has a daily
\* point, exactly one point, the last daily point of that month; it holds
\* nothing else and is ordered by date.
C16_MonthlyLastOfMonth ==
    calc.phase \in {"resampled", "reweekly"} =>
        /\ \A m \in MonthsOf(calc.daily) :
              /\ Cardinality({j \in 1..Len(calc.monthly) :
                                 MonthKey(calc.monthly[j].date) = m}) = 1
              /\ \A j \in 1..Len(calc.monthly) :
                    MonthKey(calc.monthly[j].date) = m
                    => calc.monthly[j] = calc.daily[LastOfMonth(calc.daily, m)]
        /\ MonthsOf(calc.monthly) = MonthsOf(calc.daily)
        /\ Len(calc.monthly) = Cardinality(MonthsOf(calc.daily))
        /\ Ascending(calc.monthly)

\* C16 witness: the points 2024-01-05 (10), 2024-01-20 (12), 2024-02-03 (15)
\* give the monthly series [(2024-01-20, 12), (2024-02-03, 15)].
C16_Witness ==
    /\ calc.phase = "resampled"
    /\ calc.daily = <<Point(20240105, 10), Point(20240120, 12), Point(20240203, 15)>>
    /\ calc.monthly = <<Point(20240120, 12), Point(20240203, 15)>>

\* C17: resampling to weekly a series that resampleToWeekly produced from a
\* date-ascending daily series gives that same series.
C17_WeeklyIdempotent ==
    calc.phase = "reweekly" =>
        /\ Ascending(calc.daily)
        /\ calc.reweekly = calc.weekly

\* C17 witness: three daily points, two of them of one week, were resampled
\* to two weekly points, and resampled again to the same two.
C17_Witness ==
    /\ calc.phase = "reweekly"
    /\ Len(calc.daily) = 3
    /\ Len(calc.weekly) = 2
    /\ calc.weekly[1].date = 20240105
    /\ calc.reweekly = calc.weekly

RECURSIVE IsSubsequence(_, _)
\* a can be had from b by deleting points
IsSubsequence(a, b) ==
    IF a = <<>> THEN TRUE
    ELSE IF b = <<>> THEN FALSE
    ELSE IF Head(a) = Head(b) THEN IsSubsequence(Tail(a), Tail(b))
    ELSE IsSubsequence(a, Tail(b))

\* C18: every point of the weekly and of the monthly series is a point of
\* the daily series, date and value, and the points stand in the order they
\* have in the daily series.
C18_ResamplingPicks ==
    calc.phase \in {"resampled", "reweekly"} =>
        /\ \A j \in 1..Len(calc.weekly) :
              \E i \in 1..Len(calc.daily) : calc.daily[i] = calc.weekly[j]
        /\ \A j \in 1..Len(calc.monthly) :
              \E i \in 1..Len(calc.daily) : calc.daily[i] = calc.monthly[j]
        /\ IsSubsequence(calc.weekly, calc.daily)
        /\ IsSubsequence(calc.monthly, calc.daily)

\* C18 witness: of three bars given newest first, each of a week of its
\* own, the weekly series kept all three sorted points and the monthly
\* series the second and the third.
C18_Witness ==
    /\ calc.phase = "resampled"
    /\ calc.historical = <<Bar(20240203, 10), Bar(20240120, 12), Bar(20240103, 15)>>
    /\ Len(calc.daily) = 3
    /\ calc.weekly = calc.daily
    /\ calc.monthly = <<calc.daily[2], calc.daily[3]>>

\* C19: for a series of n points and a period p >= 1, calculateSMA and
\* calculateEMA return n - p + 1 points when n >= p and none otherwise,
\* calculateRSI returns n - p points when n >= p + 1 and none otherwise.
C19_IndicatorLength ==
    LET n == Len(calc.data)
        p == calc.period
    IN  /\ calc.phase \in {"sma", "ema"} =>
              Len(calc.result) = IF n >= p THEN n - p + 1 ELSE 0
        /\ calc.phase = "rsi" =>
              Len(calc.result) = IF n >= p + 1 THEN n - p ELSE 0

\* C19 witness: the EMA of period 2 of four points has three points.
C19_Witness ==
    /\ calc.phase = "ema"
    /\ Len(calc.data) = 4
    /\ calc.period = 2
    /\ Len(calc.result) = 3

\* lo <= r <= hi; false of NaN
RatInRange(r, lo, hi) == r[2] > 0 /\ r[1] >= lo * r[2] /\ r[1] <= hi * r[2]

\* C20 (as claimed): every value calculateRSI puts out, the first included,
\* lies in [0, 100] and is 100 when the loss average at its point is zero.
C20_RsiBound ==
    calc.phase = "rsi" =>
        \A j \in 1..Len(calc.result) :
            /\ RatInRange(calc.result[j].value, 0, 100)
            /\ AvgLossAt(calc.data, calc.period, j + calc.period) = FromInt(0)
               => calc.result[j].value = FromInt(100)

\* the adjustment a test earns or costs
Adj(test, points) == IF test THEN points ELSE 0

\* C24: with a dataset present, the score before the safety override is 50,
\* plus 15 if the EMA distance is above 0, plus 15 if breadth is above 0,
\* plus 20 if RSI < 30, minus 20 if RSI > 70, plus 10 if VIX < 20, minus 20
\* if VIX > 30, clamped to [0, 100]; the safety warning is raised exactly
\* when the valuation ratio exceeds 22, and the final score is then the
\* smaller of that score and 45, and otherwise that score.
C24_ScoreFormula ==
    (dash.phase = "rendered" /\ dash.hasData) =>
        LET sum == 50 + Adj(dash.valEma50d[1] > 0 /\ dash.valEma50d[2] > 0, 15)
                      + Adj(dash.valBreadth[1] > 0 /\ dash.valBreadth[2] > 0, 15)
                      + Adj(dash.valRsiDaily[1] < 30 * dash.valRsiDaily[2], 20)
                      - Adj(dash.valRsiDaily[1] > 70 * dash.valRsiDaily[2], 20)
                      + Adj(dash.valVix[1] < 20 * dash.valVix[2], 10)
                      - Adj(dash.valVix[1] > 30 * dash.valVix[2], 20)
            clamped == IF sum < 0 THEN 0 ELSE IF sum > 100 THEN 100 ELSE sum
        IN  /\ dash.rawScore = clamped
            /\ dash.isSafetyWarning = (dash.peRatio[1] > 22 * dash.peRatio[2])
            /\ dash.peRatio = (IF dash.dataPe[1] # 0 THEN dash.dataPe ELSE <<231, 10>>)
            /\ dash.leverageScore =
                  IF dash.isSafetyWarning /\ clamped > 45 THEN 45 ELSE clamped

\* C24 witness: trend up, breadth down, RSI 70.5, VIX 30.5, ratio 22.1: the
\* score is 50 + 15 - 20 - 20 = 25, the warning is raised and 25 stays.
C24_Witness ==
    /\ dash.phase = "rendered" /\ dash.hasData
    /\ dash.valEma50d = <<1, 2>> /\ dash.valBreadth = <<-1, 1>>
    /\ dash.valRsiDaily = <<141, 2>> /\ dash.valVix = <<61, 2>>
    /\ dash.dataPe = <<221, 10>>
    /\ dash.rawScore = 25 /\ dash.isSafetyWarning /\ dash.leverageScore = 25

RECURSIVE FetchedOf(_)
\* the endpoints of the provider calls a log records, in the order issued
FetchedOf(lg) ==
    IF lg = <<>> THEN <<>>
    ELSE IF Head(lg)[1] = "fetch" THEN <<Head(lg)[2]>> \o FetchedOf(Tail(lg))
    ELSE FetchedOf(Tail(lg))

\* C26: once the primary series has come back non-empty, the cycle goes
\* through exactly five more provider calls, in the order VIX quote, VIX
\* history, SPY quote, analyst estimates, RSP history, whatever each of them
\* returns: the calls issued so far are always the first ones of that list,
\* the return of each call but the last issues the next one in the same
\* step, and the cycle has made all six when it resolves.
C26_FiveFurtherCalls ==
    \A t \in Tabs :
        (caller[t] = "getMarketHistory" /\ Len(loc[t].spyDaily) > 0) =>
            LET calls == FetchedOf(log[t])
            IN  /\ Len(calls) >= 2 /\ Len(calls) <= 6
                /\ calls = SubSeq(<<"historical-price-full/SPY", "quote/%5EVIX",
                                    "historical-price-full/%5EVIX", "quote/SPY",
                                    "analyst-estimates/SPY", "historical-price-full/RSP">>,
                                  1, Len(calls))
                /\ pc[t] = "await" => Count(log[t], "returned") = Len(calls) - 1
                /\ pc[t] # "await" =>
                      /\ pc[t] = "resolved" /\ ret[t] # JNull
                      /\ Len(calls) = 6
                      /\ Count(log[t], "returned") = 6

\* C26 witness: every one of the five calls after the primary one failed
\* (the cycle resolved with the synthetic volatility point, no breadth and
\* the default ratio), and all six calls were made.
C26_Witness ==
    /\ pc["tab1"] = "resolved" /\ ret["tab1"] # JNull
    /\ Len(FetchedOf(log["tab1"])) = 6
    /\ loc["tab1"].spyQuote = JNull
    /\ loc["tab1"].vixValue = 15
    /\ Len(ret["tab1"].vixDaily) = 1
    /\ ret["tab1"].breadth = <<>>
    /\ ret["tab1"].peRatio = <<231, 10>>

\* C27: a cycle that returns from the cache only reads it.  In the step in
\* which a cycle resolves to a dataset without having awaited anything, the
\* stored text is left exactly as it was (same data, same timestamp, so the
\* entry still ends its hour at the original timestamp + CACHE_DURATION_MS),
\* the dataset returned is the stored one, and the cycle has issued no
\* provider call and no write.
C27_HitIsReadOnly ==
    [][\A t \in Tabs :
          (Begins(t) /\ pc'[t] = "resolved" /\ ret'[t] # JNull)
          => /\ storage' = storage
             /\ ValidEntry(storage')
             /\ ret'[t] = storage'.value.data
             /\ storage'.value.timestamp = storage.value.timestamp
             /\ clock' < storage'.value.timestamp + CACHE_DURATION_MS
             /\ Count(log'[t], "fetch") = 0
             /\ Count(log'[t], "setItem") = 0
             /\ inflight'[t] = <<>>
      ]_vars

\* C27 witness: an entry this page wrote itself at instant 0 was served
\* from the cache one millisecond before its hour ended; the clock has since
\* passed the end of the hour and the entry still carries timestamp 0.
C27_Witness ==
    /\ pc["tab1"] = "resolved"
    /\ log["tab1"] = <<Event("getItem", "")>>
    /\ now["tab1"] = CACHE_DURATION_MS - 1
    /\ clock = CACHE_DURATION_MS + 1
    /\ ValidEntry(storage)
    /\ storage # SeedEntry(localDayShift)
    /\ storage.value.timestamp = 0
    /\ ret["tab1"] = storage.value.data

\* C28: a dataset is never returned, and never stored, with an empty daily
\* series.  Whatever a resolved cycle returns, when it is not null, has a
\* non-empty spyDaily, whether it came from the cache or from the provider;
\* a dataset the cycle assembled from the provider (the cycle reached its
\* setItem) also has lastUpdated equal to the date of the last point of
\* spyDaily and isMock false; and the stored text, once it is a usable
\* entry, holds such a dataset.
C28_DatasetNeverEmpty ==
    /\ \A t \in Tabs :
          (caller[t] = "getMarketHistory" /\ pc[t] = "resolved" /\ ret[t] # JNull) =>
              /\ Len(ret[t].spyDaily) > 0
              /\ Count(log[t], "setItem") = 1 =>
                    /\ ret[t].lastUpdated = ret[t].spyDaily[Len(ret[t].spyDaily)].date
                    /\ ret[t].isMock = FALSE
    /\ \/ storage \in {NoItem} \cup InvalidTexts(localDayShift)
       \/ /\ ValidEntry(storage)
          /\ storage.value.data.lastUpdated =
                storage.value.data.spyDaily[Len(storage.value.data.spyDaily)].date
          /\ storage.value.data.isMock = FALSE

\* C28 witness: a cycle fetched, and returned and stored a dataset of three
\* daily points dated by the last of them.
C28_Witness ==
    /\ pc["tab1"] = "resolved" /\ ret["tab1"] # JNull
    /\ Count(log["tab1"], "setItem") = 1
    /\ Len(ret["tab1"].spyDaily) = 3
    /\ ret["tab1"].lastUpdated = 20250103
    /\ ret["tab1"].spyDaily[1].date = 20241230
    /\ storage = JSONStringify(CacheObj(now["tab1"], ret["tab1"]))

\* C29: an expired entry is never served as a fallback.  In the step in
\* which a cycle resolves without having assembled a dataset (it did not
\* reach its setItem: no key was set, or the primary fetch failed) while the
\* stored text is a usable entry that was expired when the cycle read the
\* clock, the cycle resolves to null and the stored entry is left as it is.
C29_StaleNeverFallback ==
    [][\A t \in Tabs :
          (/\ caller[t] = "getMarketHistory"
           /\ pc[t] # "resolved" /\ pc'[t] = "resolved"
           /\ Count(log'[t], "setItem") = 0
           /\ ValidEntry(storage)
           /\ now'[t] - storage.value.timestamp >= CACHE_DURATION_MS)
          => /\ ret'[t] = JNull
             /\ storage' = storage
             /\ \/ NoKey /\ log'[t] = <<Event("getItem", "")>>
                \/ /\ ~NoKey
                   /\ Returns(t, "historical-price-full/SPY")
                   /\ Len(parseFMPHistory(fetched'[t].value)) = 0
      ]_vars

\* C29 witness: with a key set and the seeded entry just expired, the
\* primary fetch failed; the cycle resolved to null and the expired entry
\* is still stored.
C29_Witness ==
    /\ ~NoKey
    /\ pc["tab1"] = "resolved" /\ ret["tab1"] = JNull
    /\ now["tab1"] = CACHE_DURATION_MS
    /\ log["tab1"] = <<Event("getItem", ""),
                       Event("fetch", "historical-price-full/SPY"),
                       Event("returned", "historical-price-full/SPY")>>
    /\ storage = SeedEntry(localDayShift)
    /\ Len(storage.value.data.spyDaily) = 3

\* C25: tabs do not coordinate, and the last writer wins.  A tab's cache
\* check depends on the stored text alone, so a tab that begins while
\* nothing usable is stored goes to the provider even when another tab is
\* already fetching; and every step that changes the stored text is the
\* last step of one tab's cycle and leaves exactly that cycle's entry: the
\* dataset it returns under the instant it read at its start, whatever was
\* stored before.  The stored text is therefore always nothing or one
\* cycle's complete entry.
C25_LastWriterWins ==
    [][/\ \A t \in Tabs :
            (Begins(t) /\ storage = NoItem)
            => /\ pc'[t] = "await"
               /\ inflight'[t][1].endpoint = "historical-price-full/SPY"
               /\ storage' = NoItem
       /\ storage' # storage =>
            \E t \in Tabs :
                /\ Returns(t, "historical-price-full/RSP")
                /\ pc'[t] = "resolved"
                /\ storage' = JSONStringify(CacheObj(now[t], ret'[t]))
                /\ \A u \in Tabs \ {t} : pc'[u] = pc[u] /\ ret'[u] = ret[u]
       /\ storage' # NoItem =>
            \E t \in Tabs :
                /\ pc'[t] = "resolved" /\ Count(log'[t], "setItem") = 1
                /\ storage' = JSONStringify(CacheObj(now'[t], ret'[t]))
      ]_vars

\* C25 witness: both tabs missed and fetched, tab1 beginning first; tab2
\* wrote its entry and tab1 then wrote over it.  The entry stored is tab1's,
\* with the older timestamp and without the breadth series tab2 obtained.
C25_Witness ==
    /\ pc["tab1"] = "resolved" /\ pc["tab2"] = "resolved"
    /\ Count(log["tab1"], "setItem") = 1 /\ Count(log["tab2"], "setItem") = 1
    /\ now["tab1"] = 0 /\ now["tab2"] = CACHE_DURATION_MS
    /\ ret["tab1"].breadth = <<>> /\ Len(ret["tab2"].breadth) = 2
    /\ storage = JSONStringify(CacheObj(0, ret["tab1"]))

\* C30: with a dataset in state, a reading whose indicator series is empty
\* is 0 and scores as 0.  When the daily series has fewer than 15 points the
\* 14-day RSI series is empty, the momentum reading is 0 and the score has
\* the +20 of an RSI below 30; when the volatility series is empty the
\* volatility reading is 0 and the score has the +10 of a VIX below 20.
C30_EmptySeriesReadAsZero ==
    (dash.phase = "rendered" /\ dash.hasData /\ calc.phase = "derived") =>
        LET trend == 50 + Adj(dash.valEma50d[1] > 0 /\ dash.valEma50d[2] > 0, 15)
                        + Adj(dash.valBreadth[1] > 0 /\ dash.valBreadth[2] > 0, 15)
            rsi   == Adj(dash.valRsiDaily[1] < 30 * dash.valRsiDaily[2], 20)
                        - Adj(dash.valRsiDaily[1] > 70 * dash.valRsiDaily[2], 20)
            vix   == Adj(dash.valVix[1] < 20 * dash.valVix[2], 10)
                        - Adj(dash.valVix[1] > 30 * dash.valVix[2], 20)
            Bounded(x) == IF x < 0 THEN 0 ELSE IF x > 100 THEN 100 ELSE x
        IN  /\ Len(calc.data.spyDaily) < 15 =>
                  /\ calculateRSI(calc.data.spyDaily, 14) = <<>>
                  /\ dash.valRsiDaily = <<0, 1>>
                  /\ dash.rawScore = Bounded(trend + 20 + vix)
            /\ calc.data.vixDaily = <<>> =>
                  /\ dash.valVix = <<0, 1>>
                  /\ dash.rawScore = Bounded(trend + rsi + 10)
            /\ Len(calc.data.spyDaily) >= 15 =>
                  Len(calculateRSI(calc.data.spyDaily, 14)) = Len(calc.data.spyDaily) - 14

\* C30 witness: a dataset of two daily points and no volatility point was
\* rendered: both readings are 0 and the score is 50 + 20 + 10.
C30_Witness ==
    /\ dash.phase = "rendered" /\ dash.hasData /\ calc.phase = "derived"
    /\ Len(calc.data.spyDaily) = 2
    /\ calc.data.vixDaily = <<>>
    /\ dash.valRsiDaily = <<0, 1>> /\ dash.valVix = <<0, 1>>
    /\ dash.rawScore = 80
    /\ dash.leverageScore = 80

\* C21 (as claimed): the EMA of a constant series of at least `period`
\* points has the value v, exactly, at every output point.
C21_ConstantExactly ==
    (calc.phase = "ema64" /\ Len(calc.cents) >= calc.period /\ Constant(calc.cents)) =>
        \A j \in 1..Len(calc.result) :
            calc.result[j].value = FromCents(calc.cents[1])

\* C21: the EMA of a constant series of at least `period` points, all of
\* value v, has one output for each point from the period-th on, each
\* equal to v to within the rounding of the additions and the division
\* that make it (a relative difference of at most period * 2^-52), and
\* exactly v when v is a whole number.
C21_ConstantWithinRounding ==
    (calc.phase = "ema64" /\ Len(calc.cents) >= calc.period /\ Constant(calc.cents)) =>
        /\ Len(calc.result) = Len(calc.cents) - calc.period + 1
        /\ \A j \in 1..Len(calc.result) :
              /\ Within(calc.result[j].value, FromCents(calc.cents[1]), calc.period)
              /\ Whole(calc.cents) => calc.result[j].value = FromCents(calc.cents[1])

\* C21 witness: four points of 0.10 averaged with period 3: the first
\* output is the next number above 0.1, the second is 0.1.
C21_Witness ==
    /\ calc.phase = "ema64"
    /\ calc.cents = <<10, 10, 10, 10>> /\ calc.period = 3
    /\ Len(calc.result) = 2
    /\ calc.result[1].value = [FromCents(10) EXCEPT !.man = BAdd(@, <<1>>)]
    /\ calc.result[2].value = FromCents(10)

\* C22 (as claimed): the first output of calculateEMA is the first point of
\* calculateSMA of the same period, and each later output is
\* (value - previous) * k + previous with k = 2 / (period + 1).
C22_SeededAsSMA ==
    (calc.phase = "ema64" /\ Len(calc.data) >= calc.period) =>
        /\ calc.result[1] = calculateSMA64(calc.data, calc.period)[1]
        /\ \A j \in 2..Len(calc.result) :
              calc.result[j].value =
                 Add64(Mul64(Sub64(calc.data[j + calc.period - 1].value,
                                   calc.result[j - 1].value),
                             DivInt64(FromInt64(2), calc.period + 1)),
                       calc.result[j - 1].value)

\* C22: the first output of calculateEMA carries the date of the period-th
\* input point and the sum of the first `period` values, added in index
\* order, divided by `period`.  That is the simple average of those values
\* to within rounding; it is the value of the first point of calculateSMA
\* (which adds the same values in the opposite order) when the values are
\* whole numbers, and within period * 2^-52 of it otherwise.  Each later
\* output carries the date of its input point and the value
\* (value - previous) * k + previous with k = 2 / (period + 1).
C22_SeededInIndexOrder ==
    (calc.phase = "ema64" /\ Len(calc.data) >= calc.period) =>
        LET sma == calculateSMA64(calc.data, calc.period)[1]
        IN  /\ Len(calc.result) = Len(calc.data) - calc.period + 1
            /\ calc.result[1].date = calc.data[calc.period].date
            /\ calc.result[1].date = sma.date
            /\ calc.result[1].value =
                  DivInt64(SumUp64(calc.data, 1, calc.period), calc.period)
            /\ WithinOfRatio(calc.result[1].value, SumCents(calc.cents, 1, calc.period),
                             100 * calc.period, calc.period)
            /\ Within(calc.result[1].value, sma.value, calc.period)
            /\ Whole(calc.cents) => calc.result[1].value = sma.value
            /\ \A j \in 2..Len(calc.result) :
                  /\ calc.result[j].date = calc.data[j + calc.period - 1].date
                  /\ calc.result[j].value =
                        Add64(Mul64(Sub64(calc.data[j + calc.period - 1].value,
                                          calc.result[j - 1].value),
                                    DivInt64(FromInt64(2), calc.period + 1)),
                              calc.result[j - 1].value)

\* C22 witness: 0.10, 0.20, 0.30, 0.10 averaged with period 3: the seed
\* differs from the first simple average, and a second output follows it.
C22_Witness ==
    /\ calc.phase = "ema64"
    /\ calc.cents = <<10, 20, 30, 10>> /\ calc.period = 3
    /\ Len(calc.result) = 2
    /\ calc.result[1].date = Ymd(2024, 1, 3)
    /\ calc.result[1].value # calculateSMA64(calc.data, 3)[1].value
    /\ calc.result[2].date = Ymd(2024, 1, 4)

\* C23: calculateSMA gives nothing for fewer than `period` points and
\* otherwise one point for each input point from the period-th on, with
\* that point's date and the mean of the `period` values ending there: the
\* number nearest to the mean when the values are whole, and within
\* period * 2^-52 of the mean in general.  The closes 100, 102, 101, 105,
\* 107 with period 3 give 101, 308/3 and 313/3 on the dates of the third,
\* fourth and fifth points.
C23_SimpleMovingAverage ==
    calc.phase = "sma64" =>
        LET n == Len(calc.data)
            p == calc.period
        IN  /\ Len(calc.result) = IF n < p THEN 0 ELSE n - p + 1
            /\ \A j \in 1..Len(calc.result) :
                  LET sum == SumCents(calc.cents, j, j + p - 1)
                  IN  /\ calc.result[j].date = calc.data[j + p - 1].date
                      /\ WithinOfRatio(calc.result[j].value, sum, 100 * p, p)
                      /\ Whole(calc.cents) =>
                            calc.result[j].value = FromRatio(sum, 100 * p)
            /\ (calc.cents = WholeCloses /\ p = 3) =>
                  calc.result = <<Point(Ymd(2024, 1, 3), FromInt64(101)),
                                  Point(Ymd(2024, 1, 4), FromRatio(308, 3)),
                                  Point(Ymd(2024, 1, 5), FromRatio(313, 3))>>

\* C23 witness: the five closes 100, 102, 101, 105, 107 averaged with
\* period 3; the second of the three outputs is the number nearest 308/3.
C23_Witness ==
    /\ calc.phase = "sma64"
    /\ calc.cents = WholeCloses /\ calc.period = 3
    /\ Len(calc.result) = 3
    /\ calc.result[1] = Point(Ymd(2024, 1, 3), FromInt64(101))
    /\ calc.result[2] = Point(Ymd(2024, 1, 4), FromRatio(308, 3))
    /\ calc.result[3] = Point(Ymd(2024, 1, 5), FromRatio(313, 3))

====
